---- MODULE Spec2Model ----
(***************************************************************************)
(* A model of haldeck.py: the per-key state machines (Key), the page       *)
(* registry with its switch protocol (switch_to_page), the press-origin    *)
(* table, the hardware callback (key_change_callback) and the fast loop    *)
(* with its raw key-state polling fallback (update / handle_key_event).    *)
(*                                                                         *)
(* Every handler is an operator from a state record to a state record, so  *)
(* that a handler which calls another (switch_to_page calls Key.reset and  *)
(* Key.update_key_image on every key) is the composition of the two.  An   *)
(* action applies one handler to the record S of the current variables.    *)
(***************************************************************************)
EXTENDS Integers, Sequences, FiniteSets, TLC

(***************************************************************************)
(* Program constants and the configuration the model runs.                 *)
(***************************************************************************)
MAX_PAGES == 20

\* deck.key_count(): the number of physical keys of the device.
KeyCount == 2

KeyIdx == 0 .. (KeyCount - 1)

InRange(n) == 1 <= n /\ n <= MAX_PAGES

(***************************************************************************)
(* The configuration file: a set of sections.  A section is [page.N]       *)
(* (kind "page"), [page.N.key.KK] (kind "page.key") or [key.KK] (kind      *)
(* "key"); int says whether int() accepts the text N, and n is its value.  *)
(***************************************************************************)
PageSection(n, type, image) ==
    [kind |-> "page", int |-> TRUE, n |-> n, key |-> 0,
     type |-> type, image |-> image]

PageKeySection(n, kk) ==
    [kind |-> "page.key", int |-> TRUE, n |-> n, key |-> kk,
     type |-> "", image |-> ""]

LegacyKeySection(kk) ==
    [kind |-> "key", int |-> TRUE, n |-> 0, key |-> kk,
     type |-> "", image |-> ""]

\* A section [page.x] whose page number int() rejects.
BadPageSection ==
    [kind |-> "page", int |-> FALSE, n |-> 0, key |-> 0,
     type |-> "", image |-> ""]

\* The files load_splash_image can open; for any other it returns None.
LoadableImages == {"logo.png"}

\* The configuration the key and page operations below run with: pages 1
\* and 2 have key sections; [page.3] and [page.4] have Type = splash and a
\* SplashImage that loads; page 3 has a key section as well.
RunConfig ==
    {PageKeySection(1, 0), PageKeySection(1, 1),
     PageKeySection(2, 0), PageKeySection(2, 1),
     PageSection(3, "splash", "logo.png"), PageKeySection(3, 0),
     PageSection(4, "splash", "logo.png")}

\* The [page.N] sections with Type = splash and a non-empty SplashImage.
SplashSections(cfg) ==
    {sec \in cfg : /\ sec.kind = "page"
                   /\ sec.int
                   /\ InRange(sec.n)
                   /\ sec.type = "splash"
                   /\ sec.image # ""}

\* splash_page_configs after the loop over config.sections().
ParseSplashConfigs(cfg) == {sec.n : sec \in SplashSections(cfg)}

\* The sections for which the loop runs configured_pages.add(page_num).
AddsPage(sec) ==
    \/ sec.kind = "page" /\ sec.int /\ InRange(sec.n) /\ sec.type # "splash"
    \/ sec.kind = "page.key" /\ sec.int /\ InRange(sec.n)

\* configured_pages after the loop and the fallback to page 1.
ParseConfiguredPages(cfg) ==
    LET found == {sec.n : sec \in {x \in cfg : AddsPage(x)}}
                 \cup (IF \E sec \in cfg : sec.kind = "key" THEN {1} ELSE {})
    IN  IF found = {} /\ ParseSplashConfigs(cfg) = {} THEN {1} ELSE found

\* The keys of splash_pages: the splash configurations whose image loads.
LoadSplashPages(cfg) ==
    {sec.n : sec \in {x \in SplashSections(cfg) : x.image \in LoadableImages}}

\* The pages of keys_by_page.
configured_pages == ParseConfiguredPages(RunConfig)

\* The pages of splash_pages.
splash_pages == LoadSplashPages(RunConfig)

\* The page numbers a caller passes to switch_to_page: out of range (0, 21),
\* normal (1, 2), normal and splash (3), splash (4), unconfigured (5).
Targets == {0, 1, 2, 3, 4, 5, 21}

\* Option Type of a key's section; a key without a section is unused.
KeyType(p, k) ==
    CASE <<p, k>> = <<1, 0>> -> "momentary"
      [] <<p, k>> = <<1, 1>> -> "keyboard"
      [] <<p, k>> = <<2, 0>> -> "keyboard"
      [] <<p, k>> = <<2, 1>> -> "display-float"
      [] OTHER -> "unused"

\* Option EnablePin (default False).
hasEnable(p, k) == <<p, k>> = <<1, 0>>

\* Option KeyboardKey (default None, written "").
keyboard_key(p, k) ==
    CASE <<p, k>> = <<1, 1>> -> "a"
      [] <<p, k>> = <<2, 0>> -> "Key.bogus"
      [] OTHER -> ""

\* The strings k for which k.startswith('Key.') holds, among those configured.
KeyPrefixed == {"Key.space", "Key.bogus"}

\* PynKey._member_map_: the special keys pynput knows.
PynKeyMembers == {"Key.space"}

\* The strings of length one; pynput's Controller raises ValueError for a
\* string of any other length.
SingleChars == {"a", "?"}

\* Options MinStep and MinInterval of the display-float key, in tenths.
min_step == 5
min_interval == 10

\* time.time() when the program starts, in tenths of a second.
StartTime == 20

AllKeys == configured_pages \X KeyIdx
MomKeys == {pk \in AllKeys : KeyType(pk[1], pk[2]) = "momentary"}
EnableKeys == {pk \in MomKeys : hasEnable(pk[1], pk[2])}
FloatKeys == {pk \in AllKeys : KeyType(pk[1], pk[2]) = "display-float"}

(***************************************************************************)
(* Python values held by Key.state: a bool, a float (in tenths), None, or  *)
(* a float that is NaN or infinite.                                        *)
(***************************************************************************)
PyBool(b) == [t |-> "bool", b |-> b, n |-> 0]
PyFloat(n) == [t |-> "float", b |-> FALSE, n |-> n]
PyNone == [t |-> "none", b |-> FALSE, n |-> 0]
PyNaN == [t |-> "nan", b |-> FALSE, n |-> 0]
PyFalse == PyBool(FALSE)

\* bool(v), as `if self.state` evaluates it.
Truthy(v) ==
    CASE v.t = "bool" -> v.b
      [] v.t = "float" -> v.n # 0
      [] v.t = "none" -> FALSE
      [] OTHER -> TRUE

Abs(x) == IF x < 0 THEN -x ELSE x

(***************************************************************************)
(* The state.                                                              *)
(***************************************************************************)
VARIABLES
    current_page,         \* the active-page pointer
    hal_page_current,     \* HAL['page-current'], the page-feedback signal
    keys,                 \* keys_by_page: page -> key index -> [state, enabled]
    float_state,          \* display-float keys: _last_good_value, _last_update_ts
    press_origin_by_key,  \* the press-origin table, a set of <<key index, page>>
    prev_key_states,      \* update()'s previous raw sample
    held,                 \* keys the simulated keyboard holds down
    hal_out,              \* output signals of the momentary keys
    hal_in,               \* input signals of the momentary keys
    hal_enable,           \* enable signals of the momentary keys that have one
    hal_value,            \* value signals of the display-float keys
    phys,                 \* the physical keys: TRUE while held down
    now,                  \* time.time(), in tenths of a second
    config,               \* the sections of the configuration file
    registry,             \* the pages of keys_by_page and of splash_pages
    tasks,                \* the threads: where each is in its code; the device
                          \* and HAL['page-select'], which they read
    press_page,           \* history: per key index, the page of the press handled last
    last                  \* history: what the last operation did

vars == <<current_page, hal_page_current, keys, float_state,
          press_origin_by_key, prev_key_states, held, hal_out, hal_in,
          hal_enable, hal_value, phys, now, config, registry, tasks,
          press_page, last>>

\* The variables as one record, the argument of every handler.
S ==
    [current_page |-> current_page, hal_page_current |-> hal_page_current,
     keys |-> keys, float_state |-> float_state,
     press_origin_by_key |-> press_origin_by_key,
     prev_key_states |-> prev_key_states, held |-> held, hal_out |-> hal_out,
     hal_in |-> hal_in, hal_enable |-> hal_enable, hal_value |-> hal_value,
     phys |-> phys, now |-> now, config |-> config, registry |-> registry,
     tasks |-> tasks, press_page |-> press_page, last |-> last]

\* The next state is the record r.
Set(r) ==
    /\ current_page' = r.current_page
    /\ hal_page_current' = r.hal_page_current
    /\ keys' = r.keys
    /\ float_state' = r.float_state
    /\ press_origin_by_key' = r.press_origin_by_key
    /\ prev_key_states' = r.prev_key_states
    /\ held' = r.held
    /\ hal_out' = r.hal_out
    /\ hal_in' = r.hal_in
    /\ hal_enable' = r.hal_enable
    /\ hal_value' = r.hal_value
    /\ phys' = r.phys
    /\ now' = r.now
    /\ config' = r.config
    /\ registry' = r.registry
    /\ tasks' = r.tasks
    /\ press_page' = r.press_page
    /\ last' = r.last

(***************************************************************************)
(* History of one operation: its name and arguments, the page and table it *)
(* started from, and what it did.                                          *)
(***************************************************************************)
Begin(s, op, arg, flag) ==
    [s EXCEPT !.last =
        [op |-> op, arg |-> arg, flag |-> flag,
         old_page |-> IF op = "switch" THEN s.current_page ELSE 0,
         old_origin |-> IF op = "switch" THEN s.press_origin_by_key ELSE {},
         resets |-> {},     \* <<page, key>> of every Key.reset()
         pushed |-> <<>>,   \* every deck.set_key_image, in order
         kbd |-> {},        \* <<"down"|"up", key, page, index>> sent to the keyboard
         deliv |-> {},      \* <<page, key, pressed>> of every Key.key_change()
         rel |-> {}]]       \* the releases handled, each with its press

(***************************************************************************)
(* The press-origin table, a dict keyed by (deck.id(), key index) of one   *)
(* deck.                                                                   *)
(***************************************************************************)
DictSet(t, k, v) == {e \in t : e[1] # k} \cup {<<k, v>>}
DictHas(t, k) == \E e \in t : e[1] = k
DictGet(t, k, default) ==
    IF DictHas(t, k) THEN (CHOOSE e \in t : e[1] = k)[2] ELSE default
DictPop(t, k) == {e \in t : e[1] # k}

(***************************************************************************)
(* The simulated keyboard (pynput's Controller).                           *)
(***************************************************************************)
\* A key handed to the keyboard: a member of PynKey (enum) or a string.
EnumKey(name) == [enum |-> TRUE, name |-> name]
StrKey(name) == [enum |-> FALSE, name |-> name]

\* Controller._resolve: a PynKey member or a string of length one; any other
\* string raises ValueError.
Resolvable(key) == key.enum \/ key.name \in SingleChars

\* key_change's lookup of a 'Key.xxx' name: '?' when pynput has no such key.
KeyChangeResolve(k) ==
    IF k \in KeyPrefixed
    THEN IF k \in PynKeyMembers THEN EnumKey(k) ELSE StrKey("?")
    ELSE StrKey(k)

\* reset's lookup of a 'Key.xxx' name: the string itself when pynput has no
\* such key.
ResetResolve(k) ==
    IF k \in KeyPrefixed
    THEN IF k \in PynKeyMembers THEN EnumKey(k) ELSE StrKey(k)
    ELSE StrKey(k)

\* keyboard.press(key) for Key (p, k).
KeyboardPress(s, key, p, k) ==
    [s EXCEPT !.held = @ \cup {key},
              !.last.kbd = @ \cup {<<"down", key, p, k>>}]

\* keyboard.release(key) for Key (p, k).
KeyboardRelease(s, key, p, k) ==
    [s EXCEPT !.held = @ \ {key},
              !.last.kbd = @ \cup {<<"up", key, p, k>>}]

(***************************************************************************)
(* class Key.                                                              *)
(***************************************************************************)
\* Key.__init__: state False; a momentary, keyboard or display-float key
\* starts enabled, an unused key disabled.
NewKey(p, k) ==
    [state |-> PyFalse, enabled |-> KeyType(p, k) # "unused"]

\* The display-float part of Key.__init__: getfloat hands on the numbers of
\* the options MinStep and MinInterval as they are written.
NewFloatStateWith(MinStep, MinInterval) ==
    [last_good_value |-> PyNone, last_update_ts |-> 0,
     min_step |-> MinStep, min_interval |-> MinInterval]

NewFloatState == NewFloatStateWith(min_step, min_interval)

\* Key.update_key_image: render the key and push the image to the device.
update_key_image(s, p, k) ==
    [s EXCEPT !.last.pushed = Append(@, <<"key", p, k>>)]

\* The try block of Key.reset; fails says that the release statement raises
\* an exception the caller did not cause (the signal or the keyboard backend
\* fails), which the except clause swallows.
ResetRelease(s, p, k, fails) ==
    IF KeyType(p, k) = "momentary"
    THEN IF fails THEN s ELSE [s EXCEPT !.hal_out[<<p, k>>] = FALSE]
    ELSE IF KeyType(p, k) = "keyboard" /\ Truthy(s.keys[p][k].state)
         THEN LET key == ResetResolve(keyboard_key(p, k))
              IN  IF keyboard_key(p, k) # "" /\ Resolvable(key) /\ ~fails
                  THEN KeyboardRelease(s, key, p, k)
                  ELSE s
         ELSE s

\* The finally block of Key.reset.
ResetFinally(s, p, k) ==
    update_key_image(
        [s EXCEPT !.keys[p][k].state = PyFalse,
                  !.last.resets = @ \cup {<<p, k>>}], p, k)

\* A reset whose state reset sits in the try block, after the release, and
\* is skipped when the release raises.
reset_with_state_in_try(s, p, k, fails) ==
    IF fails
    THEN update_key_image([s EXCEPT !.last.resets = @ \cup {<<p, k>>}], p, k)
    ELSE ResetFinally(ResetRelease(s, p, k, fails), p, k)

\* Key.reset with the release failing or not.
reset_with(s, p, k, fails) == ResetFinally(ResetRelease(s, p, k, fails), p, k)

\* Key.reset.
reset(s, p, k) == reset_with(s, p, k, FALSE)

\* A momentary state_poll that updates on a change of the enable signal
\* only.
StatePollPinsEnableOnly(s, p, k, has_enable) ==
    LET in_state == s.hal_in[<<p, k>>]
        enable_state == IF has_enable THEN s.hal_enable[<<p, k>>] ELSE TRUE
    IN  IF s.keys[p][k].enabled # enable_state
        THEN update_key_image(
                 [s EXCEPT !.keys[p][k].state = PyBool(in_state),
                           !.keys[p][k].enabled = enable_state], p, k)
        ELSE s

\* The momentary branch of Key.state_poll, has_enable being self.hasEnable.
StatePollPins(s, p, k, has_enable) ==
    LET in_state == s.hal_in[<<p, k>>]
        enable_state == IF has_enable THEN s.hal_enable[<<p, k>>] ELSE TRUE
    IN  IF s.keys[p][k].enabled # enable_state
           \/ s.keys[p][k].state # PyBool(in_state)
        THEN update_key_image(
                 [s EXCEPT !.keys[p][k].state = PyBool(in_state),
                           !.keys[p][k].enabled = enable_state], p, k)
        ELSE s

\* Key.state_poll of a momentary key.
StatePollMomentary(s, p, k) == StatePollPins(s, p, k, hasEnable(p, k))

\* _is_valid: not None, not NaN, not infinite.
is_valid(v) == v.t = "float"

\* A state_poll of a display-float key whose baseline follows every valid
\* sample, so that the change is measured against the previous sample.
StatePollFloatPrevSample(s, p, k) ==
    LET value == s.hal_value[<<p, k>>]
        fs == s.float_state[<<p, k>>]
        updated ==
            /\ is_valid(value)
            /\ \/ fs.last_good_value = PyNone
               \/ Abs(value.n - fs.last_good_value.n) >= fs.min_step
        s1 == IF is_valid(value)
              THEN [s EXCEPT !.float_state[<<p, k>>].last_good_value = value]
              ELSE s
    IN  IF updated \/ (s.now - fs.last_update_ts) >= fs.min_interval
        THEN update_key_image(
                 [s1 EXCEPT !.float_state[<<p, k>>].last_update_ts = s.now,
                            !.keys[p][k].state = value], p, k)
        ELSE s1

\* Key.state_poll of a display-float key.
StatePollFloat(s, p, k) ==
    LET value == s.hal_value[<<p, k>>]
        fs == s.float_state[<<p, k>>]
        updated ==
            /\ is_valid(value)
            /\ \/ fs.last_good_value = PyNone
               \/ Abs(value.n - fs.last_good_value.n) >= fs.min_step
        s1 == IF updated
              THEN [s EXCEPT !.float_state[<<p, k>>].last_good_value = value]
              ELSE s
    IN  IF updated \/ (s.now - fs.last_update_ts) >= fs.min_interval
        THEN update_key_image(
                 [s1 EXCEPT !.float_state[<<p, k>>].last_update_ts = s.now,
                            !.keys[p][k].state = value], p, k)
        ELSE s1

\* Key.state_poll.
state_poll(s, p, k) ==
    CASE KeyType(p, k) = "momentary" -> StatePollMomentary(s, p, k)
      [] KeyType(p, k) = "display-float" -> StatePollFloat(s, p, k)
      [] OTHER -> s

\* The momentary case of Key.key_change.
KeyChangeMomentary(s, p, k, key_state) ==
    update_key_image(
        [s EXCEPT !.hal_out[<<p, k>>] = key_state,
                  !.keys[p][k].state = PyBool(key_state)], p, k)

\* The keyboard case of Key.key_change.
KeyChangeKeyboard(s, p, k, key_state) ==
    IF keyboard_key(p, k) # ""
    THEN LET key == KeyChangeResolve(keyboard_key(p, k))
             s1 == IF key_state
                   THEN KeyboardPress(s, key, p, k)
                   ELSE KeyboardRelease(s, key, p, k)
         IN  update_key_image(
                 [s1 EXCEPT !.keys[p][k].state = PyBool(key_state)], p, k)
    ELSE s

\* The body of Key.key_change past its guard.
KeyChangeByType(s, p, k, key_state) ==
    CASE KeyType(p, k) = "momentary" -> KeyChangeMomentary(s, p, k, key_state)
      [] KeyType(p, k) = "keyboard" -> KeyChangeKeyboard(s, p, k, key_state)
      [] OTHER -> s

\* A key_change without its guard on the enabled flag.
key_change_unguarded(s, p, k, key_state) ==
    KeyChangeByType(s, p, k, key_state)

\* Key.key_change.
key_change(s, p, k, key_state) ==
    IF ~s.keys[p][k].enabled THEN s ELSE KeyChangeByType(s, p, k, key_state)

(***************************************************************************)
(* The page registry: switch_to_page.                                      *)
(***************************************************************************)
\* for key in keys_by_page[old_page]: key.reset(), from key index k on.
RECURSIVE ResetKeysFrom(_, _, _)
ResetKeysFrom(s, p, k) ==
    IF k >= KeyCount THEN s ELSE ResetKeysFrom(reset(s, p, k), p, k + 1)

\* Reset all keys on the old page, when it is a normal page.
ResetOldPage(s) ==
    IF s.current_page \in configured_pages
    THEN ResetKeysFrom(s, s.current_page, 0)
    ELSE s

\* A switch_to_page that forgets press_origin_by_key.clear().
ClearOriginsForgotten(s) == s

\* press_origin_by_key.clear().
ClearOrigins(s) == [s EXCEPT !.press_origin_by_key = {}]

\* The tiles of a splash page pushed to the keys, from key index k on.
RECURSIVE PushTilesFrom(_, _, _)
PushTilesFrom(s, p, k) ==
    IF k >= KeyCount
    THEN s
    ELSE PushTilesFrom(
             [s EXCEPT !.last.pushed = Append(@, <<"tile", p, k>>)], p, k + 1)

\* The splash branch of switch_to_page.
SwitchSplash(s, new_page) ==
    PushTilesFrom(
        [s EXCEPT !.current_page = new_page, !.hal_page_current = new_page],
        new_page, 0)

\* for key in keys_by_page[current_page]: key.update_key_image().
RECURSIVE RenderKeysFrom(_, _, _)
RenderKeysFrom(s, p, k) ==
    IF k >= KeyCount
    THEN s
    ELSE RenderKeysFrom(update_key_image(s, p, k), p, k + 1)

\* The normal branch of switch_to_page past its guards.
SwitchNormal(s, new_page) ==
    RenderKeysFrom(
        [s EXCEPT !.current_page = new_page, !.hal_page_current = new_page],
        new_page, 0)

\* A switch_to_page that re-renders the page it is already on without force.
SwitchTargetNoSkip(s, new_page, force) ==
    IF new_page \in splash_pages
    THEN SwitchSplash(s, new_page)
    ELSE IF new_page \notin configured_pages
         THEN s
         ELSE SwitchNormal(s, new_page)

\* A switch_to_page that does not test whether the page is configured.
SwitchTargetNoConfigTest(s, new_page, force) ==
    IF new_page \in splash_pages
    THEN SwitchSplash(s, new_page)
    ELSE IF new_page = s.current_page /\ ~force
         THEN s
         ELSE SwitchNormal(s, new_page)

\* switch_to_page from the splash test on.
SwitchTarget(s, new_page, force) ==
    IF new_page \in splash_pages
    THEN SwitchSplash(s, new_page)
    ELSE IF new_page \notin configured_pages
         THEN s
         ELSE IF new_page = s.current_page /\ ~force
              THEN s
              ELSE SwitchNormal(s, new_page)

\* switch_to_page past the validation of the page number.
SwitchBody(s, new_page, force) ==
    SwitchTarget(ClearOrigins(ResetOldPage(s)), new_page, force)

\* A switch_to_page whose validation accepts page 0.
switch_to_page_from_0(s, new_page, force) ==
    IF new_page < 0 \/ new_page > MAX_PAGES
    THEN s
    ELSE SwitchBody(s, new_page, force)

\* switch_to_page.
switch_to_page(s, new_page, force) ==
    IF new_page < 1 \/ new_page > MAX_PAGES
    THEN s
    ELSE SwitchBody(s, new_page, force)

(***************************************************************************)
(* Press and release events: the hardware callback and the polling         *)
(* fallback's handler.                                                     *)
(***************************************************************************)
\* History: a press of key index k was handled while page p was active.
NotePress(s, k, p) == [s EXCEPT !.press_page[k] = p]

\* History: a release of key index k was handled; with it, the page that was
\* active when its press was handled (0: no press was).
NoteRelease(s, k) ==
    [s EXCEPT !.last.rel = @ \cup {<<k, s.press_page[k]>>},
              !.press_page[k] = 0]

\* keys_by_page[target_page][key].key_change(state), when the key exists.
Route(s, target_page, k, state) ==
    IF target_page \in configured_pages /\ k < KeyCount
    THEN key_change(
             [s EXCEPT !.last.deliv = @ \cup {<<target_page, k, state>>}],
             target_page, k, state)
    ELSE s

\* The page a press resolves to: the current page, recorded in the table.
ResolvePress(s, k) ==
    [s EXCEPT !.press_origin_by_key = DictSet(@, k, s.current_page)]

\* The page a release resolves to: the table's entry, else the current page.
ReleaseTarget(s, k) == DictGet(s.press_origin_by_key, k, s.current_page)

\* key_change_callback.
key_change_callback(s, k, state) ==
    IF state
    THEN NotePress(Route(ResolvePress(s, k), s.current_page, k, state),
                   k, s.current_page)
    ELSE NoteRelease(
             Route([s EXCEPT !.press_origin_by_key = DictPop(@, k)],
                   ReleaseTarget(s, k), k, state), k)

\* handle_key_event.
handle_key_event(s, k, state) ==
    IF state
    THEN NotePress(Route(ResolvePress(s, k), s.current_page, k, state),
                   k, s.current_page)
    ELSE NoteRelease(
             Route([s EXCEPT !.press_origin_by_key = DictPop(@, k)],
                   ReleaseTarget(s, k), k, state), k)

(***************************************************************************)
(* The fast loop: one iteration of update().                               *)
(***************************************************************************)
\* for key_obj in keys_by_page[current_page]: key_obj.state_poll().
RECURSIVE PollKeysFrom(_, _, _)
PollKeysFrom(s, p, k) ==
    IF k >= KeyCount THEN s ELSE PollKeysFrom(state_poll(s, p, k), p, k + 1)

\* One key of the raw sample against the previous sample.
PollRawKey(s, k) ==
    IF s.phys[k] # s.prev_key_states[k]
    THEN LET s1 == IF s.current_page \in configured_pages /\ k < KeyCount
                   THEN handle_key_event(s, k, s.phys[k])
                   ELSE s
         IN  [s1 EXCEPT !.prev_key_states[k] = s.phys[k]]
    ELSE s

\* for key_id, state in enumerate(current_key_states): ...
RECURSIVE PollRawFrom(_, _)
PollRawFrom(s, k) ==
    IF k >= KeyCount THEN s ELSE PollRawFrom(PollRawKey(s, k), k + 1)

\* One iteration of the loop of update(); key_states_ok says whether
\* deck.key_states() is supported.
update(s, key_states_ok) ==
    IF s.current_page \notin splash_pages /\ s.current_page \in configured_pages
    THEN LET s1 == PollKeysFrom(s, s.current_page, 0)
         IN  IF key_states_ok THEN PollRawFrom(s1, 0) ELSE s1
    ELSE s

(***************************************************************************)
(* Startup.                                                                *)
(***************************************************************************)
\* initial_page = min(keys_by_page.keys()) if keys_by_page else 1.
initial_page ==
    IF configured_pages = {}
    THEN 1
    ELSE CHOOSE p \in configured_pages : \A q \in configured_pages : p <= q

\* The threads before any of them is inside a handler: the thread of the
\* device library that calls key_change_callback (cb), the fast loop update
\* (fast) and the slow loop page_monitor (slow); lock is the holder of the
\* device's lock, the one `with deck:` takes.
IdleTasks ==
    [lock |-> "none",
     cb |-> [pc |-> "idle", key |-> 0, state |-> FALSE, target_page |-> 0],
     fast |-> [pc |-> "idle", key_id |-> 0, fresh |-> FALSE, target_page |-> 0,
               current_key_states |-> [k \in KeyIdx |-> FALSE],
               alive |-> TRUE, raised |-> FALSE, again |-> FALSE],
     slow |-> [pc |-> "idle", new_page |-> 0, last_page_request |-> 1,
               alive |-> TRUE, raised |-> FALSE, again |-> FALSE],
     main |-> "main loop",
     page_select |-> 1,
     pointer_read |-> [main |-> 0, slow |-> 0],
     open |-> TRUE,
     unplugged |-> FALSE,
     broken |-> {}]

\* The state built by __main__ before it displays the initial page.
Constructed ==
    [current_page |-> initial_page,
     hal_page_current |-> initial_page,
     keys |-> [p \in configured_pages |-> [k \in KeyIdx |-> NewKey(p, k)]],
     float_state |-> [pk \in FloatKeys |-> NewFloatState],
     press_origin_by_key |-> {},
     prev_key_states |-> [k \in KeyIdx |-> FALSE],
     held |-> {},
     hal_out |-> [pk \in MomKeys |-> FALSE],
     hal_in |-> [pk \in MomKeys |-> FALSE],
     hal_enable |-> [pk \in EnableKeys |-> FALSE],
     hal_value |-> [pk \in FloatKeys |-> PyFloat(0)],
     phys |-> [k \in KeyIdx |-> FALSE],
     now |-> StartTime,
     config |-> RunConfig,
     registry |-> [keys_by_page |-> configured_pages,
                   splash_pages |-> splash_pages],
     tasks |-> IdleTasks,
     press_page |-> [k \in KeyIdx |-> 0],
     last |-> [op |-> "none"]]

\* Display initial page: switch_to_page(initial_page, force=True).
Started ==
    switch_to_page(Begin(Constructed, "switch", initial_page, TRUE),
                   initial_page, TRUE)

\* The variables hold the record r.
Is(r) ==
    /\ current_page = r.current_page
    /\ hal_page_current = r.hal_page_current
    /\ keys = r.keys
    /\ float_state = r.float_state
    /\ press_origin_by_key = r.press_origin_by_key
    /\ prev_key_states = r.prev_key_states
    /\ held = r.held
    /\ hal_out = r.hal_out
    /\ hal_in = r.hal_in
    /\ hal_enable = r.hal_enable
    /\ hal_value = r.hal_value
    /\ phys = r.phys
    /\ now = r.now
    /\ config = r.config
    /\ registry = r.registry
    /\ tasks = r.tasks
    /\ press_page = r.press_page
    /\ last = r.last

Init == Is(Started)

(***************************************************************************)
(* The operations.                                                         *)
(***************************************************************************)
\* A call of switch_to_page(new_page, force).
SwitchToPage(new_page, force) ==
    Set(switch_to_page(Begin(S, "switch", new_page, force), new_page, force))

\* A physical key changes and the device library delivers the event to
\* key_change_callback.
HwKeyEvent(k) ==
    LET pressed == ~phys[k]
    IN  Set(key_change_callback(
                Begin([S EXCEPT !.phys[k] = pressed], "callback", k, pressed),
                k, pressed))

\* One iteration of the fast loop, on a device whose key_states() works.
Update ==
    Set(update(Begin(S, "update", 0, FALSE), TRUE))

\* The external process changes the input signal of a momentary key.
HalSetIn(pk) ==
    Set(Begin([S EXCEPT !.hal_in[pk] = ~hal_in[pk]], "hal", 0, FALSE))

\* The external process changes the enable signal of a momentary key.
HalSetEnable(pk) ==
    Set(Begin([S EXCEPT !.hal_enable[pk] = ~hal_enable[pk]], "hal", 0, FALSE))

Next ==
    \/ \E new_page \in Targets, force \in BOOLEAN : SwitchToPage(new_page, force)
    \/ \E k \in KeyIdx : HwKeyEvent(k)
    \/ Update
    \/ \E pk \in MomKeys : HalSetIn(pk)
    \/ \E pk \in EnableKeys : HalSetEnable(pk)

Spec == Init /\ [][Next]_vars

(***************************************************************************)
(* The momentary key of page 1 on its own, configured with or without an   *)
(* enable pin: the pin exists exactly when the option EnablePin is set.     *)
(***************************************************************************)
InitMomentary ==
    \E enable_pin \in BOOLEAN :
        Is([Started EXCEPT !.hal_enable = IF enable_pin THEN @ ELSE <<>>])

\* The fast loop's key.state_poll() on the momentary key.
PollMomentary ==
    Set(StatePollPins(Begin(S, "poll", 0, last.op = "key_change"), 1, 0,
                      <<1, 0>> \in DOMAIN hal_enable))

\* Key.key_change(key_state) on the momentary key.
KeyChangeOfMomentary(key_state) ==
    Set(key_change(Begin(S, "key_change", 0, key_state), 1, 0, key_state))

\* Key.reset() on the momentary key.
ResetMomentary ==
    Set(reset(Begin(S, "reset", 0, FALSE), 1, 0))

NextMomentary ==
    \/ PollMomentary
    \/ \E key_state \in BOOLEAN : KeyChangeOfMomentary(key_state)
    \/ ResetMomentary
    \/ HalSetIn(<<1, 0>>)
    \/ \E pk \in DOMAIN hal_enable : HalSetEnable(pk)

SpecMomentary == InitMomentary /\ [][NextMomentary]_vars

(***************************************************************************)
(* Key.reset on its own: every state a key of each type can be in, and a   *)
(* release that may fail.                                                  *)
(***************************************************************************)
\* The states Key (p, k) can be in.
KeyStates(p, k) ==
    CASE KeyType(p, k) = "momentary" ->
             [state : {PyBool(FALSE), PyBool(TRUE)},
              enabled : IF hasEnable(p, k) THEN BOOLEAN ELSE {TRUE}]
      [] KeyType(p, k) = "keyboard" ->
             [state : {PyBool(FALSE), PyBool(TRUE)}, enabled : {TRUE}]
      [] KeyType(p, k) = "display-float" ->
             [state : {PyFalse, PyFloat(0), PyFloat(16), PyNaN, PyNone},
              enabled : {TRUE}]
      [] OTHER -> {NewKey(p, k)}

\* The keys the keyboard holds for the keyboard keys whose state is true.
HeldFor(ks) ==
    {KeyChangeResolve(keyboard_key(pk[1], pk[2])) :
        pk \in {qk \in AllKeys : /\ KeyType(qk[1], qk[2]) = "keyboard"
                                 /\ keyboard_key(qk[1], qk[2]) # ""
                                 /\ Truthy(ks[qk[1]][qk[2]].state)}}

\* Every assignment of a state to each key of the set K, keyed by <<p, k>>.
RECURSIVE KeyTables(_)
KeyTables(K) ==
    IF K = {}
    THEN {<<>>}
    ELSE LET pk == CHOOSE qk \in K : TRUE
         IN  {(pk :> v) @@ f : v \in KeyStates(pk[1], pk[2]),
                               f \in KeyTables(K \ {pk})}

InitReset ==
    \E f \in KeyTables(AllKeys), out \in [MomKeys -> BOOLEAN] :
        LET ks == [p \in configured_pages |-> [k \in KeyIdx |-> f[<<p, k>>]]]
        IN  Is([Begin(Constructed, "none", 0, FALSE) EXCEPT
                   !.keys = ks, !.hal_out = out, !.held = HeldFor(ks)])

\* A call of Key.reset on Key (p, k); fails: the release raises.
ResetKey(p, k, fails) ==
    Set(reset_with([Begin(S, "reset", k, fails) EXCEPT !.last.old_page = p],
                   p, k, fails))

NextReset ==
    \E pk \in AllKeys, fails \in BOOLEAN : ResetKey(pk[1], pk[2], fails)

SpecReset == InitReset /\ [][NextReset]_vars

(***************************************************************************)
(* Startup on its own: __main__ reads a configuration file, registers the  *)
(* pages and displays the initial page.                                    *)
(***************************************************************************)
\* The sections a configuration file is made of here.
ConfigSections ==
    {PageSection(1, "", ""), PageSection(1, "splash", "logo.png"),
     PageSection(2, "splash", "logo.png"),
     PageSection(2, "splash", "missing.png"), PageSection(2, "splash", ""),
     PageKeySection(2, 0), PageKeySection(3, 0), LegacyKeySection(0),
     PageSection(21, "", ""), BadPageSection}

\* The files configparser reads: it rejects a section that occurs twice.
Configs ==
    {cfg \in SUBSET ConfigSections :
        \A a, b \in cfg :
            (a.kind = "page" /\ b.kind = "page" /\ a.int /\ b.int /\ a.n = b.n)
                => a = b}

\* initial_page = min(keys_by_page.keys()) if keys_by_page else 1.
InitialPageOf(pages) ==
    IF pages = {} THEN 1 ELSE CHOOSE p \in pages : \A q \in pages : p <= q

\* The active-page pointer switch_to_page(new_page, force) leaves, with the
\* pages of reg registered and cur the pointer before the call.
SwitchPointer(reg, cur, new_page, force) ==
    IF new_page < 1 \/ new_page > MAX_PAGES
    THEN cur
    ELSE IF new_page \in reg.splash_pages
         THEN new_page
         ELSE IF new_page \notin reg.keys_by_page
              THEN cur
              ELSE IF new_page = cur /\ ~force THEN cur ELSE new_page

\* The pages __main__ registers for the configuration cfg.
Register(cfg) ==
    [keys_by_page |-> ParseConfiguredPages(cfg),
     splash_pages |-> LoadSplashPages(cfg)]

\* Before __main__ runs: the configuration file is written, the registries
\* are empty, the pointer and the feedback signal are 1.
InitConfig ==
    \E cfg \in Configs :
        Is([Begin(Constructed, "none", 0, FALSE) EXCEPT
               !.config = cfg,
               !.registry = [keys_by_page |-> {}, splash_pages |-> {}],
               !.keys = <<>>,
               !.current_page = 1,
               !.hal_page_current = 1])

\* __main__ from the parsing of the configuration to the display of the
\* initial page: one Key per physical key on every normal page, then
\* current_page = initial_page and switch_to_page(initial_page, force=True).
Main ==
    /\ last.op = "none"
    /\ LET reg == Register(config)
           first == InitialPageOf(reg.keys_by_page)
           shown == SwitchPointer(reg, first, first, TRUE)
       IN  Set([Begin(S, "main", first, TRUE) EXCEPT
                   !.registry = reg,
                   !.keys = [p \in reg.keys_by_page |->
                                [k \in KeyIdx |-> NewKey(p, k)]],
                   !.current_page = shown,
                   !.hal_page_current = shown])

NextConfig == Main

SpecConfig == InitConfig /\ [][NextConfig]_vars

(***************************************************************************)
(* The startup and the slow loop over the configurations: __main__         *)
(* registers the pages and starts the threads, page_monitor reads the      *)
(* pointer once and then follows the page-select signal, __main__ displays  *)
(* the initial page.  No key is pressed here: every Key's state is False    *)
(* and every output false, so the resets of switch_to_page change nothing.  *)
(***************************************************************************)
\* The values the page-select signal takes.
PageSelectValues == {0, 1, 2, 3, 21}

\* switch_to_page(new_page, force) with the pages of s.registry registered:
\* the table, the pointer and the feedback signal it leaves.
SwitchIn(s, new_page, force) ==
    IF new_page < 1 \/ new_page > MAX_PAGES
    THEN s
    ELSE LET cleared == [s EXCEPT !.press_origin_by_key = {}]
             moved == [cleared EXCEPT !.current_page = new_page,
                                      !.hal_page_current = new_page]
         IN  IF new_page \in s.registry.splash_pages
             THEN moved
             ELSE IF new_page \notin s.registry.keys_by_page
                  THEN cleared
                  ELSE IF new_page = s.current_page /\ ~force
                       THEN cleared
                       ELSE moved

InitMonitor ==
    \E cfg \in Configs :
        Is([Begin(Constructed, "none", 0, FALSE) EXCEPT
               !.config = cfg,
               !.registry = [keys_by_page |-> {}, splash_pages |-> {}],
               !.keys = <<>>,
               !.current_page = 1,
               !.hal_page_current = 1,
               !.tasks.main = "parse",
               !.tasks.slow.pc = "not started"])

\* __main__ up to the start of the threads (lines 826-950).
MainRegister ==
    /\ tasks.main = "parse"
    /\ LET reg == Register(config)
       IN  Set([Begin(S, "register", 0, FALSE) EXCEPT
                   !.registry = reg,
                   !.keys = [p \in reg.keys_by_page |->
                                [k \in KeyIdx |-> NewKey(p, k)]],
                   !.tasks.main = "display",
                   !.tasks.slow.pc = "start"])

\* __main__, lines 953-957: current_page = initial_page, the feedback
\* signal, switch_to_page(initial_page, force=True).
MainDisplay ==
    /\ tasks.main = "display"
    /\ LET first == InitialPageOf(registry.keys_by_page)
           s == [Begin(S, "main", first, TRUE) EXCEPT
                    !.current_page = first,
                    !.hal_page_current = first,
                    !.tasks.main = "main loop"]
       IN  Set(SwitchIn(s, first, TRUE))

\* page_monitor, line 666: last_page_request = current_page.
PageMonitorStart ==
    /\ tasks.slow.pc = "start"
    /\ Set([Begin(S, "start", 0, FALSE) EXCEPT
               !.tasks.slow.pc = "idle",
               !.tasks.slow.last_page_request = current_page])

\* The external process writes the page-select signal.
HalSetPageSelect(page_request) ==
    /\ tasks.main # "parse"
    /\ page_request # tasks.page_select
    /\ Set([Begin(S, "hal", page_request, FALSE) EXCEPT
               !.tasks.page_select = page_request])

\* page_monitor, lines 672-677, one pass that finds a new request.
PageMonitorSwitch ==
    /\ tasks.slow.pc = "idle"
    /\ LET page_request == tasks.page_select
       IN  /\ page_request # tasks.slow.last_page_request
           /\ page_request # current_page
           /\ Set([SwitchIn(Begin(S, "switch", page_request, FALSE),
                            page_request, FALSE)
                     EXCEPT !.tasks.slow.last_page_request = page_request])

NextMonitor ==
    \/ MainRegister
    \/ MainDisplay
    \/ PageMonitorStart
    \/ \E page_request \in PageSelectValues : HalSetPageSelect(page_request)
    \/ PageMonitorSwitch

SpecMonitor == InitMonitor /\ [][NextMonitor]_vars

\* Both threads run for ever: __main__ reaches its main loop, and the slow
\* loop makes a pass every 0.1 s.
FairMonitor ==
    /\ SpecMonitor
    /\ WF_vars(MainRegister)
    /\ WF_vars(MainDisplay)
    /\ WF_vars(PageMonitorStart)
    /\ WF_vars(PageMonitorSwitch)

(***************************************************************************)
(* The startup and the slow loop again, with switch_to_page in its steps:  *)
(* __main__ calls it while page_monitor, started before, may call it too.  *)
(* "HAL[hal_page_current_pin] = current_page" evaluates the global         *)
(* current_page and then stores into the pin, and the interpreter may      *)
(* switch threads between the two.                                         *)
(***************************************************************************)
\* A switch_to_page that does not return for a page that is not configured.
SwitchEnterNoConfigTest(s, new_page, force, return_pc) ==
    IF new_page < 1 \/ new_page > MAX_PAGES
    THEN [state |-> s, pc |-> return_pc]
    ELSE LET cleared == [s EXCEPT !.press_origin_by_key = {}]
         IN  IF new_page = s.current_page /\ ~force
                /\ new_page \notin s.registry.splash_pages
             THEN [state |-> cleared, pc |-> return_pc]
             ELSE [state |-> cleared, pc |-> "assign"]

\* switch_to_page up to the assignment of the pointer (lines 596-638): the
\* table is cleared, and the step after it is "assign" or the return.
SwitchEnter(s, new_page, force, return_pc) ==
    IF new_page < 1 \/ new_page > MAX_PAGES
    THEN [state |-> s, pc |-> return_pc]
    ELSE LET cleared == [s EXCEPT !.press_origin_by_key = {}]
         IN  IF new_page \in s.registry.splash_pages
             THEN [state |-> cleared, pc |-> "assign"]
             ELSE IF new_page \notin s.registry.keys_by_page
                  THEN [state |-> cleared, pc |-> return_pc]
                  ELSE IF new_page = s.current_page /\ ~force
                       THEN [state |-> cleared, pc |-> return_pc]
                       ELSE [state |-> cleared, pc |-> "assign"]

\* The configurations of this part: pages 1 and 2 as splash pages with an
\* image that loads, and keys on pages 1 (legacy section), 2 and 3.
PublishConfigs ==
    {cfg \in Configs :
        cfg \subseteq {PageSection(1, "splash", "logo.png"),
                       PageSection(2, "splash", "logo.png"),
                       PageKeySection(2, 0), PageKeySection(3, 0),
                       LegacyKeySection(0)}}

InitPublish ==
    \E cfg \in PublishConfigs :
        Is([Begin(Constructed, "none", 0, FALSE) EXCEPT
               !.config = cfg,
               !.registry = [keys_by_page |-> {}, splash_pages |-> {}],
               !.keys = <<>>,
               !.current_page = 1,
               !.hal_page_current = 1,
               !.tasks.main = "parse",
               !.tasks.slow.pc = "not started"])

\* __main__, line 955: current_page = initial_page.
MainPointer ==
    /\ tasks.main = "display"
    /\ Set([Begin(S, "main", InitialPageOf(registry.keys_by_page), TRUE) EXCEPT
               !.current_page = InitialPageOf(registry.keys_by_page),
               !.tasks.main = "publish"])

\* __main__, line 956: HAL[hal_page_current_pin] = initial_page.
MainPublish ==
    /\ tasks.main = "publish"
    /\ Set([Begin(S, "main", last.arg, TRUE) EXCEPT
               !.hal_page_current = InitialPageOf(registry.keys_by_page),
               !.tasks.main = "enter"])

\* __main__, line 957: switch_to_page(initial_page, force=True) begins.
MainEnter ==
    /\ tasks.main = "enter"
    /\ LET e == SwitchEnter(Begin(S, "switch", last.arg, TRUE),
                            InitialPageOf(registry.keys_by_page), TRUE,
                            "main loop")
       IN  Set([e.state EXCEPT !.tasks.main = e.pc])

\* switch_to_page in __main__: current_page = new_page (line 616 or 641).
MainAssign ==
    /\ tasks.main = "assign"
    /\ Set([S EXCEPT !.current_page = InitialPageOf(registry.keys_by_page),
                     !.tasks.main = "load"])

\* switch_to_page in __main__: current_page is evaluated (line 620 or 646).
MainLoad ==
    /\ tasks.main = "load"
    /\ Set([S EXCEPT !.tasks.pointer_read.main = current_page,
                     !.tasks.main = "store"])

\* switch_to_page in __main__: the value is stored into the feedback pin,
\* the images follow and the call returns.
MainStore ==
    /\ tasks.main = "store"
    /\ Set([S EXCEPT !.hal_page_current = tasks.pointer_read.main,
                     !.tasks.main = "main loop"])

\* page_monitor, lines 672-677: a pass that finds a new request and calls
\* switch_to_page(page_request).
SlowEnter ==
    /\ tasks.slow.pc = "idle"
    /\ LET page_request == tasks.page_select
       IN  /\ page_request # tasks.slow.last_page_request
           /\ page_request # current_page
           /\ LET e == SwitchEnter(Begin(S, "switch", page_request, FALSE),
                                   page_request, FALSE, "return")
              IN  Set([e.state EXCEPT !.tasks.slow.pc = e.pc,
                                      !.tasks.slow.new_page = page_request])

\* switch_to_page in page_monitor: current_page = new_page.
SlowAssign ==
    /\ tasks.slow.pc = "assign"
    /\ Set([S EXCEPT !.current_page = tasks.slow.new_page,
                     !.tasks.slow.pc = "load"])

\* switch_to_page in page_monitor: current_page is evaluated.
SlowLoad ==
    /\ tasks.slow.pc = "load"
    /\ Set([S EXCEPT !.tasks.pointer_read.slow = current_page,
                     !.tasks.slow.pc = "store"])

\* switch_to_page in page_monitor: the value is stored into the feedback
\* pin, the images follow and the call returns.
SlowStore ==
    /\ tasks.slow.pc = "store"
    /\ Set([S EXCEPT !.hal_page_current = tasks.pointer_read.slow,
                     !.tasks.slow.pc = "return"])

\* page_monitor, line 678: last_page_request = page_request.
SlowReturn ==
    /\ tasks.slow.pc = "return"
    /\ Set([S EXCEPT !.tasks.slow.last_page_request = tasks.slow.new_page,
                     !.tasks.slow.pc = "idle"])

NextPublish ==
    \/ MainRegister
    \/ MainPointer
    \/ MainPublish
    \/ MainEnter
    \/ MainAssign
    \/ MainLoad
    \/ MainStore
    \/ PageMonitorStart
    \/ \E page_request \in PageSelectValues : HalSetPageSelect(page_request)
    \/ SlowEnter
    \/ SlowAssign
    \/ SlowLoad
    \/ SlowStore
    \/ SlowReturn

SpecPublish == InitPublish /\ [][NextPublish]_vars

(***************************************************************************)
(* The float display on its own: the fast loop polls page 2 while the      *)
(* value signal and the clock change.                                      *)
(***************************************************************************)
\* The longest time the clock runs past StartTime, in tenths of a second.
MaxElapsed == 14

\* What a read of the value signal gives: 1.0, 1.2, 1.6, a NaN or infinite
\* float, or None when the read raises.
FloatValues == {PyFloat(10), PyFloat(12), PyFloat(16), PyNaN, PyNone}

\* The numbers written for the options MinStep and MinInterval, in tenths.
MinStepOptions == {min_step, -min_step}
MinIntervalOptions == {min_interval, -min_interval}

\* The state after switch_to_page(2), called on the initial page.
OnPage2 == switch_to_page(Begin(Started, "switch", 2, FALSE), 2, FALSE)

\* Page 2 is displayed; the float keys are built from the options.
InitFloat ==
    \E ms \in MinStepOptions, mi \in MinIntervalOptions :
        Is([OnPage2 EXCEPT
               !.float_state =
                   [pk \in FloatKeys |-> NewFloatStateWith(ms, mi)]])

\* time.time() advances by a tenth of a second.
Tick ==
    /\ now < StartTime + MaxElapsed
    /\ Set(Begin([S EXCEPT !.now = now + 1], "tick", 0, FALSE))

\* The external process changes the value signal of a display-float key.
HalSetValue(pk, v) ==
    /\ hal_value[pk] # v
    /\ Set(Begin([S EXCEPT !.hal_value[pk] = v], "hal", 0, FALSE))

NextFloat ==
    \/ Tick
    \/ \E pk \in FloatKeys, v \in FloatValues : HalSetValue(pk, v)
    \/ Update

SpecFloat == InitFloat /\ [][NextFloat]_vars

(***************************************************************************)
(* The float display with page switches: the slow loop leaves page 2 and   *)
(* comes back while the value signal and the clock change.                 *)
(***************************************************************************)
\* The pages switched to here.
FloatPages == {1, 2}

\* page_monitor finds a request for a page other than the active one and
\* calls switch_to_page(page_request).
PageRequest(page_request) ==
    /\ page_request # current_page
    /\ Set(switch_to_page(Begin(S, "switch", page_request, FALSE),
                          page_request, FALSE))

NextFloatPages ==
    \/ Tick
    \/ \E pk \in FloatKeys, v \in FloatValues : HalSetValue(pk, v)
    \/ Update
    \/ \E page_request \in FloatPages : PageRequest(page_request)

SpecFloatPages == InitFloat /\ [][NextFloatPages]_vars

(***************************************************************************)
(* The threads, statement by statement: the device library's thread runs   *)
(* key_change_callback, the fast loop runs the raw key-state polling and    *)
(* handle_key_event, the slow loop runs switch_to_page and the keepalive   *)
(* query.  A statement that pushes an image takes the device's lock for    *)
(* the push and waits while another thread holds it.                       *)
(***************************************************************************)
\* The physical keys pressed and released here.
ThreadKeys == {k \in KeyIdx : k < 1}

\* The pages the page-select signal asks for.
PageRequests == {1, 2}

\* Of the state s: the state of the Keys of the physical keys pressed here,
\* the output signals and the press-origin table.
Snap(s) ==
    [state |-> [pk \in configured_pages \X ThreadKeys |->
                   s.keys[pk[1]][pk[2]].state],
     hal_out |-> s.hal_out,
     press_origin_by_key |-> s.press_origin_by_key]

\* History of a statement of a thread: what Begin records, and, of the
\* physical transition handled last: first, what one application of the
\* transition, at the moment it happened, makes of the Keys, signals and
\* table; clean, no switch_to_page ran since the transition, nor between
\* an earlier sample the fast loop was still working on and the transition;
\* cbdone and fastdone, which handler finished; both, this statement ends
\* the second of the two; swept, a switch_to_page ran since the fast loop
\* took the sample it is working on.
Stmt(s, op) ==
    [s EXCEPT !.last =
        [op |-> op, arg |-> 0, flag |-> FALSE, old_page |-> 0,
         old_origin |-> {}, resets |-> {}, pushed |-> <<>>, kbd |-> {},
         deliv |-> {}, rel |-> {},
         first |-> s.last.first, clean |-> s.last.clean,
         cbdone |-> s.last.cbdone, fastdone |-> s.last.fastdone,
         both |-> FALSE, swept |-> s.last.swept]]

\* The handler named who ("cbdone" or "fastdone") finished in state s; other
\* says whether the other handler had finished.
Finished(s, who, other) ==
    IF ~s.last.clean
    THEN s
    ELSE [s EXCEPT !.last[who] = TRUE, !.last.both = other]

\* The statement ends in state s: of what it did, the history keeps only
\* what concerns the transition handled last.
Done(s) ==
    Set([s EXCEPT !.last.resets = {}, !.last.pushed = <<>>, !.last.kbd = {},
                  !.last.deliv = {}, !.last.rel = {},
                  !.last.first = IF s.last.clean THEN @ ELSE Snap(Started),
                  !.last.cbdone = s.last.clean /\ @,
                  !.last.fastdone = s.last.clean /\ @])

\* Where the fast loop is while it works on a sample of the raw key states.
HoldsSample == {"diff", "record", "target", "route"}

\* The first statement of either handler: a press records the current page,
\* a release pops the entry and resolves its target page.
RecordOrigin(s, who, k, state) ==
    IF state
    THEN [ResolvePress(s, k) EXCEPT !.tasks[who].pc = "target"]
    ELSE [s EXCEPT !.press_origin_by_key = DictPop(@, k),
                   !.tasks[who].target_page = ReleaseTarget(s, k),
                   !.tasks[who].pc = "route"]

\* target_page = current_page, the second statement of a press.
ReadTarget(s, who) ==
    [s EXCEPT !.tasks[who].target_page = s.current_page,
              !.tasks[who].pc = "route"]

InitThreads ==
    Is([Started EXCEPT
           !.hal_enable = [pk \in EnableKeys |-> TRUE],
           !.last = [op |-> "none", arg |-> 0, flag |-> FALSE, old_page |-> 0,
                     old_origin |-> {}, resets |-> {}, pushed |-> <<>>,
                     kbd |-> {}, deliv |-> {}, rel |-> {},
                     first |-> Snap(Started), clean |-> FALSE,
                     cbdone |-> FALSE, fastdone |-> FALSE, both |-> FALSE,
                     swept |-> FALSE]])

\* A physical key changes; the device library's thread calls
\* key_change_callback(deck, k, pressed), one call after the other.
CallbackBegin(k) ==
    /\ tasks.cb.pc = "idle"
    /\ LET pressed == ~phys[k]
           s == Stmt(S, "statement")
       IN  Done([s EXCEPT
                   !.phys[k] = pressed,
                   !.tasks.cb = [pc |-> "record", key |-> k,
                                 state |-> pressed, target_page |-> 0],
                   !.tasks.fast.fresh = FALSE,
                   !.last.clean = /\ tasks.slow.pc \in {"idle", "get_brightness"}
                                  /\ ~last.swept,
                   !.last.first =
                       Snap(key_change_callback(
                                Begin(S, "event", k, pressed), k, pressed)),
                   !.last.cbdone = FALSE,
                   !.last.fastdone = FALSE])

\* key_change_callback, lines 723-730.
CallbackRecord ==
    /\ tasks.cb.pc = "record"
    /\ Done(RecordOrigin(Stmt(S, "statement"), "cb", tasks.cb.key,
                        tasks.cb.state))

CallbackTarget ==
    /\ tasks.cb.pc = "target"
    /\ Done(ReadTarget(Stmt(S, "statement"), "cb"))

\* key_change_callback, lines 733-735: with deck: ... key_change(state).
CallbackRoute ==
    /\ tasks.cb.pc = "route"
    /\ tasks.lock = "none"
    /\ LET s == Route(Stmt(S, "statement"), tasks.cb.target_page,
                      tasks.cb.key, tasks.cb.state)
       IN  Done(Finished([s EXCEPT !.tasks.cb = IdleTasks.cb], "cbdone",
                         last.fastdone))

\* update, lines 914-917: state_poll on every key of the current page.
FastStatePoll ==
    /\ tasks.fast.pc = "idle"
    /\ tasks.lock = "none"
    /\ current_page \notin splash_pages
    /\ current_page \in configured_pages
    /\ LET s == PollKeysFrom(Stmt(S, "statement"), current_page, 0)
       IN  Done([s EXCEPT !.tasks.fast.pc = "key_states"])

\* update, line 923: the thread enters deck.key_states().
FastKeyStatesEnter ==
    /\ tasks.fast.pc = "key_states"
    /\ Done([Stmt(S, "statement") EXCEPT
               !.tasks.fast.pc = "in key_states"])

\* deck.key_states() returns the raw sample.
FastKeyStatesReturn ==
    /\ tasks.fast.pc = "in key_states"
    /\ Done([Stmt(S, "statement") EXCEPT
               !.tasks.fast.pc = "diff",
               !.tasks.fast.key_id = 0,
               !.tasks.fast.fresh = TRUE,
               !.tasks.fast.current_key_states = phys])

\* update, lines 924-935, for one key of the sample: a key that did not
\* change is passed over; a change starts handle_key_event.
FastDiff ==
    /\ tasks.fast.pc = "diff"
    /\ LET i == tasks.fast.key_id
           s == Stmt(S, "statement")
       IN  IF i >= KeyCount
           THEN Done([s EXCEPT !.tasks.fast = IdleTasks.fast,
                               !.last.swept = FALSE])
           ELSE IF tasks.fast.current_key_states[i] # prev_key_states[i]
                THEN IF current_page \in configured_pages /\ i < KeyCount
                     THEN Done([s EXCEPT !.tasks.fast.pc = "record"])
                     ELSE Done([s EXCEPT
                                  !.prev_key_states[i] =
                                      tasks.fast.current_key_states[i],
                                  !.tasks.fast.key_id = i + 1])
                ELSE Done([s EXCEPT !.tasks.fast.key_id = i + 1])

\* handle_key_event, lines 753-759.
FastRecord ==
    /\ tasks.fast.pc = "record"
    /\ Done(RecordOrigin(Stmt(S, "statement"), "fast", tasks.fast.key_id,
                        tasks.fast.current_key_states[tasks.fast.key_id]))

FastTarget ==
    /\ tasks.fast.pc = "target"
    /\ Done(ReadTarget(Stmt(S, "statement"), "fast"))

\* handle_key_event, lines 762-763, and prev_key_states[key_id] = state.
FastRoute ==
    /\ tasks.fast.pc = "route"
    /\ tasks.lock = "none"
    /\ LET i == tasks.fast.key_id
           state == tasks.fast.current_key_states[i]
           s == Route(Stmt(S, "statement"), tasks.fast.target_page, i, state)
           s1 == [s EXCEPT !.prev_key_states[i] = state,
                           !.tasks.fast.key_id = i + 1,
                           !.tasks.fast.target_page = 0,
                           !.tasks.fast.pc = "diff"]
       IN  IF tasks.fast.fresh
           THEN Done(Finished(s1, "fastdone", last.cbdone))
           ELSE Done(s1)

\* page_monitor, lines 672-677: a new page is requested and switch_to_page
\* starts: the page number is valid, old_page = current_page.
SlowRequest(page_request) ==
    /\ tasks.slow.pc = "idle"
    /\ page_request # tasks.slow.last_page_request
    /\ page_request # current_page
    /\ InRange(page_request)
    /\ Done([Stmt(S, "statement") EXCEPT
               !.tasks.slow.pc = "reset",
               !.tasks.slow.new_page = page_request,
               !.last.clean = FALSE,
               !.last.swept = tasks.fast.pc \in HoldsSample])

\* switch_to_page, lines 605-607.
SlowReset ==
    /\ tasks.slow.pc = "reset"
    /\ tasks.lock = "none"
    /\ Done([ResetOldPage(Stmt(S, "statement")) EXCEPT
               !.tasks.slow.pc = "clear",
               !.last.clean = FALSE,
               !.last.swept = tasks.fast.pc \in HoldsSample])

\* switch_to_page, line 611.
SlowClear ==
    /\ tasks.slow.pc = "clear"
    /\ Done([ClearOrigins(Stmt(S, "statement")) EXCEPT
               !.tasks.slow.pc = "target",
               !.last.clean = FALSE,
               !.last.swept = tasks.fast.pc \in HoldsSample])

\* switch_to_page, lines 614-652, and last_page_request = page_request.
SlowTarget ==
    /\ tasks.slow.pc = "target"
    /\ tasks.lock = "none"
    /\ Done([SwitchTarget(Stmt(S, "statement"), tasks.slow.new_page, FALSE)
               EXCEPT !.tasks.slow.pc = "idle",
                      !.tasks.slow.new_page = 0,
                      !.tasks.slow.last_page_request = tasks.slow.new_page,
                      !.last.clean = FALSE,
                      !.last.swept = tasks.fast.pc \in HoldsSample])

\* page_monitor, lines 687-688: with deck_ref: the thread enters
\* deck_ref.get_brightness().
KeepaliveEnter ==
    /\ tasks.slow.pc = "idle"
    /\ tasks.lock = "none"
    /\ Done([Stmt(S, "statement") EXCEPT
               !.tasks.slow.pc = "get_brightness",
               !.tasks.lock = "slow"])

\* get_brightness() returns and the lock is given back.
KeepaliveReturn ==
    /\ tasks.slow.pc = "get_brightness"
    /\ Done([Stmt(S, "statement") EXCEPT
               !.tasks.slow.pc = "idle",
               !.tasks.lock = "none"])

NextThreads ==
    \/ \E k \in ThreadKeys : CallbackBegin(k)
    \/ CallbackRecord
    \/ CallbackTarget
    \/ CallbackRoute
    \/ FastStatePoll
    \/ FastKeyStatesEnter
    \/ FastKeyStatesReturn
    \/ FastDiff
    \/ FastRecord
    \/ FastTarget
    \/ FastRoute
    \/ \E page_request \in PageRequests : SlowRequest(page_request)
    \/ SlowReset
    \/ SlowClear
    \/ SlowTarget
    \/ KeepaliveEnter
    \/ KeepaliveReturn

SpecThreads == InitThreads /\ [][NextThreads]_vars

(***************************************************************************)
(* Keys of configured types on the pages of a configuration: momentary     *)
(* keys without an enable pin, on normal pages and on pages that are        *)
(* configured as splash page as well.  The handlers are the ones above,     *)
(* with the pages of the registry and the key types read from the           *)
(* configuration.                                                           *)
(***************************************************************************)
\* A section [page.N.key.KK] with the option Type.
TypedKeySection(n, kk, type) == [PageKeySection(n, kk) EXCEPT !.type = type]

\* Key.__init__, lines 92-114: the type of key k of page p, from the section
\* [page.p.key.k], for page 1 else from [key.k]; unused without a Type.
TypeIn(cfg, p, k) ==
    LET named == {sec \in cfg :
                     sec.kind = "page.key" /\ sec.n = p /\ sec.key = k}
        legacy == {sec \in cfg : sec.kind = "key" /\ sec.key = k}
        found == IF named # {} THEN named
                 ELSE IF p = 1 THEN legacy ELSE {}
    IN  IF \E sec \in found : sec.type = "momentary"
        THEN "momentary"
        ELSE "unused"

\* The momentary keys of the normal pages of a configuration.
MomKeysIn(cfg) ==
    {pk \in ParseConfiguredPages(cfg) \X KeyIdx :
        TypeIn(cfg, pk[1], pk[2]) = "momentary"}

\* Key.key_change.
KeyChangeIn(s, p, k, key_state) ==
    IF ~s.keys[p][k].enabled
    THEN s
    ELSE IF TypeIn(s.config, p, k) = "momentary"
         THEN KeyChangeMomentary(s, p, k, key_state)
         ELSE s

\* keys_by_page[target_page][key].key_change(state), when the key exists.
RouteIn(s, target_page, k, state) ==
    IF target_page \in s.registry.keys_by_page /\ k < KeyCount
    THEN KeyChangeIn(
             [s EXCEPT !.last.deliv = @ \cup {<<target_page, k, state>>}],
             target_page, k, state)
    ELSE s

\* key_change_callback, and handle_key_event, which resolves and routes the
\* same way.
KeyEventIn(s, k, state) ==
    IF state
    THEN NotePress(RouteIn(ResolvePress(s, k), s.current_page, k, state),
                   k, s.current_page)
    ELSE NoteRelease(
             RouteIn([s EXCEPT !.press_origin_by_key = DictPop(@, k)],
                     ReleaseTarget(s, k), k, state), k)

\* Key.state_poll of key k of page p (no enable pin: enable_state is True).
StatePollIn(s, p, k) ==
    IF TypeIn(s.config, p, k) = "momentary"
    THEN LET in_state == s.hal_in[<<p, k>>]
         IN  IF ~s.keys[p][k].enabled \/ s.keys[p][k].state # PyBool(in_state)
             THEN update_key_image(
                      [s EXCEPT !.keys[p][k].state = PyBool(in_state),
                                !.keys[p][k].enabled = TRUE,
                                !.last.polled = @ \cup {<<p, k>>}], p, k)
             ELSE [s EXCEPT !.last.polled = @ \cup {<<p, k>>}]
    ELSE [s EXCEPT !.last.polled = @ \cup {<<p, k>>}]

RECURSIVE PollKeysIn(_, _, _)
PollKeysIn(s, p, k) ==
    IF k >= KeyCount THEN s ELSE PollKeysIn(StatePollIn(s, p, k), p, k + 1)

RECURSIVE PollRawIn(_, _)
PollRawIn(s, k) ==
    IF k >= KeyCount
    THEN s
    ELSE IF s.phys[k] # s.prev_key_states[k]
         THEN LET s1 == IF s.current_page \in s.registry.keys_by_page
                           /\ k < KeyCount
                        THEN KeyEventIn(s, k, s.phys[k])
                        ELSE s
              IN  PollRawIn([s1 EXCEPT !.prev_key_states[k] = s.phys[k]], k + 1)
         ELSE PollRawIn(s, k + 1)

\* One pass of the loop of update().
UpdateIn(s) ==
    IF /\ s.current_page \notin s.registry.splash_pages
       /\ s.current_page \in s.registry.keys_by_page
    THEN PollRawIn(PollKeysIn(s, s.current_page, 0), 0)
    ELSE s

\* Key.reset of key k of page p.
ResetIn(s, p, k) ==
    LET s1 == IF TypeIn(s.config, p, k) = "momentary"
              THEN [s EXCEPT !.hal_out[<<p, k>>] = FALSE]
              ELSE s
    IN  ResetFinally(s1, p, k)

RECURSIVE ResetKeysIn(_, _, _)
ResetKeysIn(s, p, k) ==
    IF k >= KeyCount THEN s ELSE ResetKeysIn(ResetIn(s, p, k), p, k + 1)

\* switch_to_page: the resets of the old page, then the table, the pointer
\* and the feedback signal, then the tiles or the Keys of the new page.
SwitchKeysIn(s, new_page, force) ==
    IF new_page < 1 \/ new_page > MAX_PAGES
    THEN s
    ELSE LET old == IF s.current_page \in s.registry.keys_by_page
                    THEN ResetKeysIn(s, s.current_page, 0)
                    ELSE s
             new == SwitchIn(old, new_page, force)
         IN  IF new_page \in s.registry.splash_pages
             THEN PushTilesFrom(new, new_page, 0)
             ELSE IF new_page \in s.registry.keys_by_page
                     /\ (new_page # s.current_page \/ force)
                  THEN RenderKeysFrom(new, new_page, 0)
                  ELSE new

\* History of an operation here: what Begin records, and the Keys polled.
BeginIn(s, op, arg, flag) ==
    [s EXCEPT !.last =
        [op |-> op, arg |-> arg, flag |-> flag, old_page |-> s.current_page,
         old_origin |-> {}, resets |-> {}, pushed |-> <<>>, kbd |-> {},
         deliv |-> {}, rel |-> {}, polled |-> {}]]

\* The configurations: momentary key 0 on page 1; page 3 a splash page,
\* with or without a momentary key 0 of its own; page 4 a splash page.
KeyConfigs ==
    {{TypedKeySection(1, 0, "momentary"),
      PageSection(3, "splash", "logo.png"),
      PageSection(4, "splash", "logo.png")} \cup extra :
        extra \in {{}, {PageKeySection(3, 0)},
                   {TypedKeySection(3, 0, "momentary")}}}

\* The program after __main__ displayed the initial page.
InitKeys ==
    \E cfg \in KeyConfigs :
        LET reg == Register(cfg)
            first == InitialPageOf(reg.keys_by_page)
        IN  Is([BeginIn(Constructed, "main", first, TRUE) EXCEPT
                   !.config = cfg,
                   !.registry = reg,
                   !.keys = [p \in reg.keys_by_page |->
                                [k \in KeyIdx |->
                                    [state |-> PyFalse,
                                     enabled |->
                                         TypeIn(cfg, p, k) # "unused"]]],
                   !.float_state = <<>>,
                   !.hal_value = <<>>,
                   !.hal_enable = <<>>,
                   !.hal_out = [pk \in MomKeysIn(cfg) |-> FALSE],
                   !.hal_in = [pk \in MomKeysIn(cfg) |-> FALSE],
                   !.current_page = first,
                   !.hal_page_current = first])

SwitchToPageIn(new_page) ==
    Set(SwitchKeysIn(BeginIn(S, "switch", new_page, FALSE), new_page, FALSE))

HwKeyEventIn(k) ==
    LET pressed == ~phys[k]
    IN  Set(KeyEventIn(BeginIn([S EXCEPT !.phys[k] = pressed],
                               "callback", k, pressed), k, pressed))

UpdateKeys == Set(UpdateIn(BeginIn(S, "update", 0, FALSE)))

HalSetInIn(pk) ==
    Set(BeginIn([S EXCEPT !.hal_in[pk] = ~hal_in[pk]], "hal", 0, FALSE))

NextKeys ==
    \/ \E new_page \in {1, 3, 4} : SwitchToPageIn(new_page)
    \/ \E k \in KeyIdx : HwKeyEventIn(k)
    \/ UpdateKeys
    \/ \E pk \in DOMAIN hal_in : HalSetInIn(pk)

SpecKeys == InitKeys /\ [][NextKeys]_vars

(***************************************************************************)
(* The loops and the transport error: the device is unplugged, every       *)
(* deck.set_key_image and deck.get_brightness raises TransportError from    *)
(* then on, and the device library closes the device some time later.  One  *)
(* iteration of a loop is one step.                                         *)
(***************************************************************************)
\* A handler that ends with update_key_image went from s to s1: the push
\* raises TransportError when the device is unplugged, and render_key_image
\* raises before the push for a Key whose rendering is broken (tasks.broken:
\* a font that does not load, a fontsize that is no integer).
Raises(s, s1) ==
    /\ Len(s1.last.pushed) > Len(s.last.pushed)
    /\ \/ s.tasks.unplugged
       \/ LET image == s1.last.pushed[Len(s1.last.pushed)]
          IN  image[1] = "key" /\ <<image[2], image[3]>> \in s.tasks.broken

\* What the handler leaves when its push raised: everything but the push.
Unpushed(s, s1) == [s1 EXCEPT !.last.pushed = s.last.pushed]

\* for key_obj in keys_by_page[current_page]: key_obj.state_poll(), up to
\* the first push that raises.
RECURSIVE PollKeysOrRaise(_, _, _)
PollKeysOrRaise(s, p, k) ==
    IF k >= KeyCount
    THEN [s |-> s, raised |-> FALSE]
    ELSE LET s1 == state_poll(s, p, k)
         IN  IF Raises(s, s1)
             THEN [s |-> Unpushed(s, s1), raised |-> TRUE]
             ELSE PollKeysOrRaise(s1, p, k + 1)

\* for key_id, state in enumerate(current_key_states): ..., up to the first
\* handle_key_event whose push raises; prev_key_states[key_id] = state is
\* not reached then.
RECURSIVE PollRawOrRaise(_, _)
PollRawOrRaise(s, k) ==
    IF k >= KeyCount
    THEN [s |-> s, raised |-> FALSE]
    ELSE IF s.phys[k] # s.prev_key_states[k]
         THEN LET s1 == IF s.current_page \in configured_pages /\ k < KeyCount
                        THEN handle_key_event(s, k, s.phys[k])
                        ELSE s
              IN  IF Raises(s, s1)
                  THEN [s |-> Unpushed(s, s1), raised |-> TRUE]
                  ELSE PollRawOrRaise(
                           [s1 EXCEPT !.prev_key_states[k] = s.phys[k]], k + 1)
         ELSE PollRawOrRaise(s, k + 1)

\* The thread th caught an exception of a device operation; ends says
\* whether the handler that caught it leaves the loop.
Caught(s, th, ends) ==
    [s EXCEPT !.tasks[th].alive = @ /\ ~ends,
              !.tasks[th].raised = TRUE,
              !.tasks[th].again = @ \/ s.tasks[th].raised]

\* The body of the loop of update(): a TransportError of state_poll reaches
\* `except TransportError: break`, one of the raw polling is caught by the
\* bare `except: pass` around it.
UpdateBody(s) ==
    IF s.current_page \notin splash_pages /\ s.current_page \in configured_pages
    THEN LET polled == PollKeysOrRaise(s, s.current_page, 0)
             raw == PollRawOrRaise(polled.s, 0)
         IN  IF polled.raised
             THEN Caught(polled.s, "fast", TRUE)
             ELSE IF raw.raised
                  THEN Caught(raw.s, "fast", FALSE)
                  ELSE raw.s
    ELSE s

\* A step of switch_to_page took the run r = [s, raised] on: nothing when
\* an earlier step raised.
RECURSIVE ResetKeysOrRaise(_, _, _)
ResetKeysOrRaise(s, p, k) ==
    IF k >= KeyCount
    THEN [s |-> s, raised |-> FALSE]
    ELSE LET s1 == reset(s, p, k)
         IN  IF Raises(s, s1)
             THEN [s |-> Unpushed(s, s1), raised |-> TRUE]
             ELSE ResetKeysOrRaise(s1, p, k + 1)

\* for key in keys_by_page[current_page]: key.update_key_image(), up to the
\* first that raises.
RECURSIVE RenderKeysOrRaise(_, _, _)
RenderKeysOrRaise(s, p, k) ==
    IF k >= KeyCount
    THEN [s |-> s, raised |-> FALSE]
    ELSE LET s1 == update_key_image(s, p, k)
         IN  IF Raises(s, s1)
             THEN [s |-> Unpushed(s, s1), raised |-> TRUE]
             ELSE RenderKeysOrRaise(s1, p, k + 1)

\* switch_to_page from the splash test on, up to the first push that
\* raises: the pointer and the feedback signal are set before the pushes, and
\* the first tile of a splash page raises on an unplugged device.
SwitchTargetOrRaise(s, new_page) ==
    LET whole == SwitchTarget(s, new_page, FALSE)
        moved == [s EXCEPT !.current_page = new_page,
                           !.hal_page_current = new_page]
    IN  IF whole.last.pushed = s.last.pushed
        THEN [s |-> whole, raised |-> FALSE]
        ELSE IF new_page \in splash_pages
             THEN IF s.tasks.unplugged
                  THEN [s |-> moved, raised |-> TRUE]
                  ELSE [s |-> whole, raised |-> FALSE]
             ELSE RenderKeysOrRaise(moved, new_page, 0)

\* switch_to_page(new_page) up to the first push that raises.
SwitchOrRaise(s, new_page) ==
    IF new_page < 1 \/ new_page > MAX_PAGES
    THEN [s |-> s, raised |-> FALSE]
    ELSE LET old == IF s.current_page \in configured_pages
                    THEN ResetKeysOrRaise(s, s.current_page, 0)
                    ELSE [s |-> s, raised |-> FALSE]
         IN  IF old.raised
             THEN old
             ELSE SwitchTargetOrRaise(ClearOrigins(old.s), new_page)

\* The body of the loop of page_monitor: page_request is the page-select
\* signal, due says that keepalive_counter reached 300.  A TransportError
\* of switch_to_page reaches `except TransportError: break`, one of
\* get_brightness is caught by the bare `except: pass` around it.
PageMonitorBody(s, page_request, due) ==
    LET wanted == /\ page_request # s.tasks.slow.last_page_request
                  /\ page_request # s.current_page
        sw == IF wanted
              THEN SwitchOrRaise(s, page_request)
              ELSE [s |-> s, raised |-> FALSE]
        s1 == IF wanted
              THEN [sw.s EXCEPT !.tasks.slow.last_page_request = page_request]
              ELSE sw.s
    IN  IF sw.raised
        THEN Caught(sw.s, "slow", TRUE)
        ELSE IF due /\ s.tasks.unplugged
             THEN Caught(s1, "slow", FALSE)
             ELSE s1

InitLoops == Init

\* The device is unplugged.
Unplug ==
    /\ ~tasks.unplugged
    /\ Set(Begin([S EXCEPT !.tasks.unplugged = TRUE], "unplug", 0, FALSE))

\* The device library's reader thread meets the transport error and closes
\* the device: deck.is_open() is false from then on.
ReaderCloses ==
    /\ tasks.unplugged
    /\ tasks.open
    /\ Set(Begin([S EXCEPT !.tasks.open = FALSE], "close", 0, FALSE))

\* A physical key of the plugged-in device changes; key_change_callback
\* handles the event.
KeyEvent(k) ==
    /\ ~tasks.unplugged
    /\ HwKeyEvent(k)

\* One pass of `while deck.is_open():` in update().
UpdateLoop ==
    /\ tasks.fast.alive
    /\ LET s == Begin(S, "update", 0, FALSE)
       IN  IF tasks.open
           THEN Set(UpdateBody(s))
           ELSE Set([s EXCEPT !.tasks.fast.alive = FALSE])

\* One pass of `while deck_ref and deck_ref.is_open():` in page_monitor.
PageMonitorLoop(page_request, due) ==
    /\ tasks.slow.alive
    /\ LET s == Begin(S, "page_monitor", page_request, due)
       IN  IF tasks.open
           THEN Set(PageMonitorBody(s, page_request, due))
           ELSE Set([s EXCEPT !.tasks.slow.alive = FALSE])

NextLoops ==
    \/ Unplug
    \/ ReaderCloses
    \/ \E k \in KeyIdx : KeyEvent(k)
    \/ \E pk \in MomKeys : HalSetIn(pk)
    \/ UpdateLoop
    \/ \E page_request \in PageRequests, due \in BOOLEAN :
          PageMonitorLoop(page_request, due)

SpecLoops == InitLoops /\ [][NextLoops]_vars

(***************************************************************************)
(* A Key whose rendering fails: render_key_image raises an exception that  *)
(* is no transport error each time the Key is rendered.  The device stays  *)
(* plugged in.                                                             *)
(***************************************************************************)
\* The Keys whose rendering may be broken: none, or one Key that draws a
\* label, on a page the startup does not render.
BrokenOptions ==
    {{}} \cup {{pk} : pk \in {qk \in AllKeys :
                                 /\ KeyType(qk[1], qk[2]) # "unused"
                                 /\ qk[1] # initial_page}}

InitFaults ==
    \E broken \in BrokenOptions :
        Is([Started EXCEPT !.tasks.broken = broken])

\* A physical key changes; key_change_callback handles the event, and the
\* exception of a broken Key's rendering ends the callback before the push.
KeyEventOrRaise(k) ==
    LET pressed == ~phys[k]
        s == Begin([S EXCEPT !.phys[k] = pressed], "callback", k, pressed)
        s1 == key_change_callback(s, k, pressed)
    IN  Set(IF Raises(s, s1) THEN Unpushed(s, s1) ELSE s1)

NextFaults ==
    \/ \E k \in KeyIdx : KeyEventOrRaise(k)
    \/ \E pk \in MomKeys : HalSetIn(pk)
    \/ UpdateLoop
    \/ \E page_request \in PageRequests : PageMonitorLoop(page_request, FALSE)

SpecFaults == InitFaults /\ [][NextFaults]_vars

(***************************************************************************)
(* load_splash_image: the source image scaled onto a canvas that spans the *)
(* keys and the gaps between them, and the canvas cut into one tile per    *)
(* key.  Sizes are in pixels.                                              *)
(***************************************************************************)
MaxRows == 2
MaxCols == 3
MaxKeySize == 2
MaxSpacing == 2
MaxImage == 5

\* A scaling that applies the aspect ratio upside down: int(a * c / b).
IntOfRatioInverted(a, b, c, lost) == (a * c) \div b

\* int(a * b / c) as the floating-point arithmetic of lines 538-548 gives
\* it: the quotient truncated; lost says that a quotient that is a whole
\* number came out just below it and was truncated to the number before.
IntOfRatio(a, b, c, lost) ==
    IF (a * b) % c = 0 /\ lost /\ a * b > 0
    THEN (a * b) \div c - 1
    ELSE (a * b) \div c

\* load_splash_image(deck, image_path, background_color, key_spacing) for a
\* deck with key_layout() = (rows, cols) and key size key_width x key_height
\* and an image file of img_w x img_h pixels.  empty_ok says whether the
\* image library resizes to an empty size instead of raising.  What is
\* returned is None or the tiles, here their crop boxes <<left, top, right,
\* bottom>> by key index, with the canvas size and the place of the pasted
\* image.
load_splash_image(rows, cols, key_width, key_height, spacing_x, spacing_y, img_w, img_h, lost, empty_ok) ==
    LET keys_total_w == cols * key_width
        keys_total_h == rows * key_height
        bezel_total_w == spacing_x * (cols - 1)
        bezel_total_h == spacing_y * (rows - 1)
        full_w == keys_total_w + bezel_total_w
        full_h == keys_total_h + bezel_total_h
        wider == img_w * full_h > full_w * img_h  \* img_ratio > deck_ratio
        new_w == IF wider THEN full_w ELSE IntOfRatio(full_h, img_w, img_h, lost)
        new_h == IF wider THEN IntOfRatio(full_w, img_h, img_w, lost) ELSE full_h
        offset_x == (full_w - new_w) \div 2
        offset_y == (full_h - new_h) \div 2
        key_images ==
            [key_index \in 0 .. rows * cols - 1 |->
                LET row == key_index \div cols
                    col == key_index % cols
                    start_x == col * (key_width + spacing_x)
                    start_y == row * (key_height + spacing_y)
                IN  <<start_x, start_y, start_x + key_width,
                      start_y + key_height>>]
    IN  IF (new_w = 0 \/ new_h = 0) /\ ~empty_ok
        THEN [returned |-> "None"]
        ELSE [returned |-> "key_images",
              canvas |-> <<full_w, full_h>>,
              splash |-> <<new_w, new_h>>,
              paste |-> <<offset_x, offset_y>>,
              key_images |-> key_images]

\* Before the call: a deck, a key spacing and an image file.
InitSplash ==
    \E rows \in 1 .. MaxRows, cols \in 1 .. MaxCols,
       key_width \in 1 .. MaxKeySize, key_height \in 1 .. MaxKeySize,
       spacing_x \in 0 .. MaxSpacing, spacing_y \in 0 .. MaxSpacing,
       img_w \in 1 .. MaxImage, img_h \in 1 .. MaxImage :
        Is([Begin(Constructed, "none", 0, FALSE) EXCEPT
               !.registry =
                   [keys_by_page |-> {}, splash_pages |-> {},
                    deck |-> [key_layout |-> <<rows, cols>>,
                              size |-> <<key_width, key_height>>],
                    key_spacing |-> <<spacing_x, spacing_y>>,
                    image |-> <<img_w, img_h>>,
                    loaded |-> [returned |-> "not called"]]])

\* The call of lines 875-880.
LoadSplashImage(lost, empty_ok) ==
    /\ last.op = "none"
    /\ LET deck == registry.deck
           loaded ==
               load_splash_image(deck.key_layout[1], deck.key_layout[2],
                                 deck.size[1], deck.size[2],
                                 registry.key_spacing[1],
                                 registry.key_spacing[2],
                                 registry.image[1], registry.image[2],
                                 lost, empty_ok)
       IN  Set([Begin(S, "load_splash_image", 0, FALSE) EXCEPT
                   !.registry.loaded = loaded])

NextSplash == \E lost, empty_ok \in BOOLEAN : LoadSplashImage(lost, empty_ok)

SpecSplash == InitSplash /\ [][NextSplash]_vars

(***************************************************************************)
(* The claims.                                                             *)
(***************************************************************************)
\* The pushes Key.reset makes on every key of page p, in order.
ResetPushes(p) == [i \in 1 .. KeyCount |-> <<"key", p, i - 1>>]

\* The pushes of the tiles of splash page p, in order.
TilePushes(p) == [i \in 1 .. KeyCount |-> <<"tile", p, i - 1>>]

\* The last n elements of the sequence q.
Tail_n(q, n) == SubSeq(q, Len(q) - n + 1, Len(q))

\* C1: when the release of a key index is handled, and its press was handled
\* while a normal page was active, key_change(False) is delivered to the Key
\* of that page, whatever page switches happened in between.
C1_ReleaseGoesToPressPage ==
    \A r \in last.rel :
        r[2] \in configured_pages => <<r[2], r[1], FALSE>> \in last.deliv

\* C2: a switch_to_page that starts on a normal page and changes the
\* active-page pointer leaves, on the outgoing page, every momentary output
\* false, every key's state false, and has emitted a key-up for every
\* keyboard key that was held.
C2_NothingLatchedOnSwitch ==
    [][(/\ last'.op = "switch"
        /\ current_page \in configured_pages
        /\ current_page' # current_page)
       => \A k \in KeyIdx :
            /\ <<current_page, k>> \in MomKeys
                   => ~hal_out'[<<current_page, k>>]
            /\ keys'[current_page][k].state = PyFalse
            /\ (/\ KeyType(current_page, k) = "keyboard"
                /\ Truthy(keys[current_page][k].state))
                   => \E e \in last'.kbd :
                          e[1] = "up" /\ e[3] = current_page /\ e[4] = k]_vars

\* C3: no stuck keys: when the release of a key index is handled and the
\* output signal of the momentary key its press was applied to is true, the
\* output signal is false afterwards.
C3_NoStuckKeys ==
    [][\A r \in last'.rel :
          (/\ <<r[2], r[1]>> \in MomKeys
           /\ hal_out[<<r[2], r[1]>>])
             => ~hal_out'[<<r[2], r[1]>>]]_vars

\* switch_to_page(target, force=False) was called with target the current
\* page, a normal page.
SamePageCall ==
    /\ last'.op = "switch"
    /\ last'.arg = current_page
    /\ ~last'.flag
    /\ current_page \in configured_pages

C5_ForceRendersTarget ==
    (/\ last.op = "switch"
     /\ last.flag
     /\ last.arg \in configured_pages)
        => /\ current_page = last.arg
           /\ Len(last.pushed) >= KeyCount
           /\ Tail_n(last.pushed, KeyCount) = ResetPushes(last.arg)

\* C6: switch_to_page with a target outside 1..MAX_PAGES changes neither the
\* active-page pointer, nor a Key, nor an output signal, nor the simulated
\* keyboard, nor the press-origin table, and resets and pushes nothing.
C6_OutOfRangeIgnored ==
    [][(last'.op = "switch" /\ ~InRange(last'.arg))
       => /\ UNCHANGED <<current_page, hal_page_current, keys, hal_out, held,
                         press_origin_by_key>>
          /\ last'.resets = {}
          /\ last'.pushed = <<>>]_vars

\* C6's case: switch_to_page(0) was called while a key was held on a normal
\* page; its table entry and its output signal are still there.
C6_Witness ==
    /\ last.op = "switch"
    /\ last.arg = 0
    /\ press_origin_by_key # {}
    /\ \E pk \in MomKeys : hal_out[pk]

\* switch_to_page was called with an in-range target that is neither a
\* normal nor a splash page.
UnconfiguredCall ==
    /\ last'.op = "switch"
    /\ InRange(last'.arg)
    /\ last'.arg \notin configured_pages \cup splash_pages

C8_TableClearedAndFunctional ==
    /\ (last.op = "switch" /\ InRange(last.arg))
           => press_origin_by_key = {}
    /\ \A e1, e2 \in press_origin_by_key : e1[1] = e2[1] => e1 = e2

\* C8's case: a call for the page already shown found an entry in the table.
C8_Witness ==
    /\ last.op = "switch"
    /\ InRange(last.arg)
    /\ last.arg = last.old_page
    /\ last.old_origin # {}
    /\ press_origin_by_key = {}

\* C9: Key.reset leaves state false and enabled unchanged, also when the
\* release fails; a second reset of the same key changes no key and nothing
\* the keyboard holds, and emits no key-up.
C9_ResetIdempotent ==
    [][last'.op = "reset"
       => /\ keys'[last'.old_page][last'.arg].state = PyFalse
          /\ \A pk \in AllKeys :
                keys'[pk[1]][pk[2]].enabled = keys[pk[1]][pk[2]].enabled
          /\ (/\ last.op = "reset"
              /\ last.old_page = last'.old_page
              /\ last.arg = last'.arg)
                 => /\ keys' = keys
                    /\ held' = held
                    /\ last'.kbd = {}]_vars

\* C9's case: a held keyboard key was reset while the release failed, and
\* its state is false.
C9_Witness ==
    /\ last.op = "reset"
    /\ last.flag
    /\ KeyType(last.old_page, last.arg) = "keyboard"
    /\ held # {}
    /\ keys[last.old_page][last.arg].state = PyFalse

\* C10: a key_change delivered by the hardware callback to a Key that is
\* disabled, unused or a float display changes no Key, no output signal and
\* nothing the keyboard holds, and pushes no image.
C10_KeyChangeIgnored ==
    [][last'.op = "callback"
       => \A d \in last'.deliv :
             (\/ ~keys[d[1]][d[2]].enabled
              \/ KeyType(d[1], d[2]) \in {"unused", "display-float"})
                => /\ UNCHANGED <<keys, float_state, hal_out, held>>
                   /\ last'.pushed = <<>>
                   /\ last'.kbd = {}]_vars

\* C10's case: a press was delivered to a momentary key whose enable signal
\* was polled false, and its output signal is false.
C10_Witness ==
    /\ last.op = "callback"
    /\ last.flag
    /\ \E d \in last.deliv :
          /\ <<d[1], d[2]>> \in EnableKeys
          /\ ~keys[d[1]][d[2]].enabled
          /\ ~hal_out[<<d[1], d[2]>>]

\* The least element of a non-empty set of numbers.
Least(P) == CHOOSE p \in P : \A q \in P : p <= q

\* C18: once __main__ has displayed the initial page, the active-page
\* pointer is the lowest page number among the normal pages and the loaded
\* splash pages, and 1 when there is none.
C18_StartsAtLowestPage ==
    last.op = "main"
        => LET pages == registry.keys_by_page \cup registry.splash_pages
           IN  current_page = IF pages = {} THEN 1 ELSE Least(pages)

\* C19: once __main__ has registered the pages, no page number is both in
\* keys_by_page and in splash_pages, and every normal page holds exactly one
\* Key per physical key index.
C19_PageNeverBoth ==
    last.op = "main"
        => /\ registry.keys_by_page \cap registry.splash_pages = {}
           /\ DOMAIN keys = registry.keys_by_page
           /\ \A p \in registry.keys_by_page : DOMAIN keys[p] = KeyIdx

\* The image of Key pk was pushed by the operation recorded in h.
Redrawn(h, pk) ==
    \E i \in 1 .. Len(h.pushed) : h.pushed[i] = <<"key", pk[1], pk[2]>>

\* One state_poll of the float key pk that reads the sample v at time t.
SampleAt(s, pk, v, t) ==
    StatePollFloat(
        Begin([s EXCEPT !.hal_value[pk] = v, !.now = t], "poll", 0, FALSE),
        pk[1], pk[2])

\* Which of the polls of the samples, one every tenth of a second from time
\* t on, redraw the key.
RECURSIVE DebounceRun(_, _, _, _)
DebounceRun(s, pk, samples, t) ==
    IF samples = <<>>
    THEN <<>>
    ELSE LET s1 == SampleAt(s, pk, Head(samples), t)
         IN  <<Redrawn(s1.last, pk)>>
             \o DebounceRun(s1, pk, Tail(samples), t + 1)

\* MinStep = 0.5, MinInterval = 1.0 and the samples 1.0, 1.2, 1.6, 1.6, ...
\* every 0.1 s: redraws at the first 1.0, at the first 1.6, and next at the
\* poll 1.0 s after that one.
DebounceExample ==
    \A pk \in FloatKeys :
        DebounceRun(
            [Constructed EXCEPT !.float_state[pk] = NewFloatStateWith(5, 10)],
            pk,
            <<PyFloat(10), PyFloat(12), PyFloat(16), PyFloat(16), PyFloat(16),
              PyFloat(16), PyFloat(16), PyFloat(16), PyFloat(16), PyFloat(16),
              PyFloat(16), PyFloat(16), PyFloat(16)>>,
            StartTime)
        = <<TRUE, FALSE, TRUE, FALSE, FALSE, FALSE, FALSE, FALSE, FALSE,
            FALSE, FALSE, FALSE, TRUE>>

\* The step path of the debounce: the sample is valid and there is no
\* baseline or the sample is min_step or more away from it.
StepPath(fs, v) ==
    /\ is_valid(v)
    /\ \/ fs.last_good_value = PyNone
       \/ Abs(v.n - fs.last_good_value.n) >= fs.min_step

\* C15: a poll of a display-float key redraws exactly when the sample is
\* valid and (there is no baseline or the sample is min_step or more away
\* from last_good_value), or min_interval or more has passed since the last
\* redraw; the step path makes the sample the baseline, nothing else changes
\* it; and the example of the specification redraws at the first 1.0, at the
\* first 1.6 and 1.0 s later.
C15_Debounce ==
    [][last'.op = "update"
       => /\ DebounceExample
          /\ \A pk \in FloatKeys :
                pk[1] = current_page
                    => LET fs == float_state[pk]
                           v == hal_value[pk]
                           due == (now - fs.last_update_ts) >= fs.min_interval
                       IN  /\ Redrawn(last', pk) <=> (StepPath(fs, v) \/ due)
                           /\ float_state'[pk].last_good_value =
                                  IF StepPath(fs, v)
                                  THEN v
                                  ELSE fs.last_good_value
                           /\ float_state'[pk].last_update_ts =
                                  IF StepPath(fs, v) \/ due
                                  THEN now
                                  ELSE fs.last_update_ts]_vars

\* C15's case: with MinStep 0.5 and MinInterval 1.0 a poll redrew a sample
\* that is less than MinStep away from the baseline, a full interval after
\* the redraw before it.
C15_Witness ==
    /\ last.op = "update"
    /\ \E pk \in FloatKeys :
          /\ Redrawn(last, pk)
          /\ float_state[pk].min_step = 5
          /\ float_state[pk].min_interval = 10
          /\ float_state[pk].last_good_value = PyFloat(16)
          /\ hal_value[pk] = PyFloat(12)
          /\ float_state[pk].last_update_ts > StartTime + 10

\* C16: a poll that reads a NaN, infinite or unreadable sample, on a key
\* whose thresholds are not negative, leaves last_good_value as it is, and
\* the displayed value (state) as it is or, when it redraws, equal to the
\* prior valid value.
C16_InvalidSampleKeepsDisplay ==
    [][last'.op = "update"
       => \A pk \in FloatKeys :
             (/\ pk[1] = current_page
              /\ ~is_valid(hal_value[pk])
              /\ float_state[pk].min_step >= 0
              /\ float_state[pk].min_interval >= 0)
                => /\ float_state'[pk].last_good_value
                          = float_state[pk].last_good_value
                   /\ keys'[pk[1]][pk[2]].state
                          \in {keys[pk[1]][pk[2]].state,
                               float_state[pk].last_good_value}]_vars

\* C17: a display-float key that is polled never has a negative min_step or
\* a negative min_interval.
C17_NegativeRejected ==
    last.op = "update"
        => \A pk \in FloatKeys :
              pk[1] = current_page
                  => /\ float_state[pk].min_step >= 0
                     /\ float_state[pk].min_interval >= 0

\* C11: key_change_callback and handle_key_event do the same to every state
\* for every key index and direction; and when the hardware callback and the
\* polling fallback have both handled one physical transition, in either
\* order and with their statements interleaved in any way, the state of the
\* Keys of that physical key, the output signals and the press-origin table
\* are what one application of the transition, at the moment it happened,
\* makes them (stated for the transitions that no statement of
\* switch_to_page overlaps).
C11_BothHandlersApplyOnce ==
    /\ \A k \in KeyIdx, state \in BOOLEAN :
          LET s == Begin(S, "event", k, state)
          IN  key_change_callback(s, k, state) = handle_key_event(s, k, state)
    /\ (last.both /\ last.clean) => Snap(S) = last.first

\* C11's case: both handlers have handled the press of a momentary key and
\* its output signal is true.
C11_Witness ==
    /\ last.both
    /\ last.clean
    /\ \E k \in ThreadKeys :
          /\ phys[k]
          /\ <<current_page, k>> \in MomKeys
          /\ hal_out[<<current_page, k>>]
          /\ DictHas(press_origin_by_key, k)

\* C12: whatever the interleaving of switch_to_page with the two handlers,
\* every entry of the press-origin table was recorded for the page the
\* active-page pointer holds.
C12_PointerAndTableAgree ==
    \A e \in press_origin_by_key : e[2] = current_page

\* No thread is inside a handler, no key is held down, and the fast loop
\* has seen every key released.
Quiescent ==
    /\ tasks.cb.pc = "idle"
    /\ tasks.fast.pc = "idle"
    /\ tasks.slow.pc = "idle"
    /\ \A k \in KeyIdx : ~phys[k] /\ ~prev_key_states[k]

\* The keyboard keys whose configured name reset and key_change resolve to
\* the same key.
SoundKeyboardKeys ==
    {pk \in AllKeys :
        /\ KeyType(pk[1], pk[2]) = "keyboard"
        /\ keyboard_key(pk[1], pk[2]) # ""
        /\ KeyChangeResolve(keyboard_key(pk[1], pk[2]))
               = ResetResolve(keyboard_key(pk[1], pk[2]))}

\* C13: once the threads are done and every key is released and its release
\* handled, no momentary Key of a page other than the active page has its
\* output signal true, and no keyboard Key of such a page has its key held.
C13_NothingLatchedOffPage ==
    Quiescent
        => /\ \A pk \in MomKeys : pk[1] # current_page => ~hal_out[pk]
           /\ \A pk \in SoundKeyboardKeys :
                 pk[1] # current_page
                     => KeyChangeResolve(keyboard_key(pk[1], pk[2])) \notin held

\* The threads that are inside a device transaction: the fast loop in
\* deck.key_states(), the slow loop in deck_ref.get_brightness().  (An image
\* push is one statement, made while the lock is free.)
InDevice ==
    {th \in {"fast", "slow"} :
        \/ th = "fast" /\ tasks.fast.pc = "in key_states"
        \/ th = "slow" /\ tasks.slow.pc = "get_brightness"}

\* C14: a thread inside a device transaction holds the device's lock, and no
\* two threads are inside a device transaction at the same time.
C14_DeviceSerialized ==
    /\ \A th \in InDevice : tasks.lock = th
    /\ Cardinality(InDevice) <= 1

\* C20: a loop in which a device operation raised the transport error has
\* ended, and attempted no device operation after the first that raised.
C20_LoopEndsOnTransportError ==
    \A th \in {"fast", "slow"} :
        tasks[th].raised => ~tasks[th].alive /\ ~tasks[th].again

\* The keys of page p that the fast loop's state_poll brings in line with
\* their signals: the momentary keys.
Polled(p) ==
    \A k \in KeyIdx :
        <<p, k>> \in MomKeys
            => /\ keys[p][k].state = PyBool(hal_in[<<p, k>>])
               /\ keys[p][k].enabled
                      = IF hasEnable(p, k) THEN hal_enable[<<p, k>>] ELSE TRUE

\* C21: with one Key's rendering broken, both loops keep running; a pass of
\* the fast loop still polls every key of the page; and a switch_to_page
\* the slow loop makes to a configured page still resets every key of the
\* outgoing page, changes the pointer and renders every other key of the
\* incoming page.
C21_FailureIsolated ==
    [][/\ tasks'.fast.alive
       /\ tasks'.slow.alive
       /\ (/\ last'.op = "update"
           /\ current_page \in configured_pages \ splash_pages)
              => Polled(current_page)'
       /\ (/\ last'.op = "page_monitor"
           /\ last'.arg # tasks.slow.last_page_request
           /\ last'.arg # current_page
           /\ last'.arg \in configured_pages \ splash_pages)
              => /\ current_page' = last'.arg
                 /\ current_page \in configured_pages
                        => last'.resets = {current_page} \X KeyIdx
                 /\ \A k \in KeyIdx :
                       <<last'.arg, k>> \notin tasks.broken
                           => \E i \in DOMAIN last'.pushed :
                                 last'.pushed[i] = <<"key", last'.arg, k>>
      ]_vars

\* The pixels of the box <<left, top, right, bottom>> lie in the canvas.
BoxInside(box, canvas) ==
    /\ 0 <= box[1] /\ box[1] <= box[3] /\ box[3] <= canvas[1]
    /\ 0 <= box[2] /\ box[2] <= box[4] /\ box[4] <= canvas[2]

\* Two boxes share no pixel.
BoxesDisjoint(a, b) ==
    \/ a[3] <= b[1] \/ b[3] <= a[1]
    \/ a[4] <= b[2] \/ b[4] <= a[2]

\* C22: a call of load_splash_image that returns tiles: the canvas is
\* (C*W + (C-1)*Gx) by (R*H + (R-1)*Gy); there are R*C tiles, tile r*C+c is
\* the W x H region at x = c*(W+Gx), y = r*(H+Gy), inside the canvas and
\* disjoint from every other tile; the scaled image fits in the canvas with
\* one axis equal to the canvas's and its margins differ by at most 1.
C22_SplashTiling ==
    (last.op = "load_splash_image" /\ registry.loaded.returned = "key_images")
        => LET R == registry.deck.key_layout[1]
               C == registry.deck.key_layout[2]
               W == registry.deck.size[1]
               H == registry.deck.size[2]
               Gx == registry.key_spacing[1]
               Gy == registry.key_spacing[2]
               res == registry.loaded
               tiles == res.key_images
               left == res.paste[1]
               top == res.paste[2]
               right == res.canvas[1] - res.splash[1] - left
               bottom == res.canvas[2] - res.splash[2] - top
           IN  /\ res.canvas = <<C * W + (C - 1) * Gx, R * H + (R - 1) * Gy>>
               /\ DOMAIN tiles = 0 .. R * C - 1
               /\ Cardinality(DOMAIN tiles) = R * C
               /\ \A r \in 0 .. R - 1, c \in 0 .. C - 1 :
                     /\ tiles[r * C + c]
                            = <<c * (W + Gx), r * (H + Gy),
                                c * (W + Gx) + W, r * (H + Gy) + H>>
                     /\ BoxInside(tiles[r * C + c], res.canvas)
               /\ \A i, j \in DOMAIN tiles :
                     i # j => BoxesDisjoint(tiles[i], tiles[j])
               /\ res.splash[1] <= res.canvas[1]
               /\ res.splash[2] <= res.canvas[2]
               /\ res.splash[1] = res.canvas[1] \/ res.splash[2] = res.canvas[2]
               /\ left >= 0 /\ top >= 0
               /\ right - left \in {0, 1}
               /\ bottom - top \in {0, 1}

\* C22's case: a grid of more than one row and column with gaps, and an
\* image of another aspect ratio than the canvas, letterboxed with uneven
\* margins.
C22_Witness ==
    /\ last.op = "load_splash_image"
    /\ registry.loaded.returned = "key_images"
    /\ registry.deck.key_layout = <<2, 3>>
    /\ registry.key_spacing[1] > 0
    /\ registry.key_spacing[2] > 0
    /\ registry.loaded.splash[2] < registry.loaded.canvas[2]
    /\ registry.loaded.paste[2] > 0
    /\ registry.loaded.canvas[2] - registry.loaded.splash[2]
           - registry.loaded.paste[2] # registry.loaded.paste[2]

\* The pages registered: the normal pages and the loaded splash pages.
RegisteredPages == registry.keys_by_page \cup registry.splash_pages

\* C23: when the page-select signal settles on a registered page p in
\* 1..20, the active page is p from some moment on.
C23_RequestEventuallyShown ==
    \A p \in PageSelectValues :
        <>[](tasks.page_select = p /\ p \in RegisteredPages /\ InRange(p))
            => <>[](current_page = p)

\* C24: while the active page is a splash page, a pass of the fast loop
\* polls no Key and routes no key transition, and a hardware key event
\* changes no Key's state and no output signal.
C24_SplashNotInteractive ==
    [][(current_page \in registry.splash_pages
            /\ last'.op \in {"update", "callback"})
          => /\ keys' = keys
             /\ hal_out' = hal_out
             /\ last'.op = "update" => last'.polled = {} /\ last'.deliv = {}
      ]_vars

\* C25: whenever no switch_to_page call is in progress (and __main__ is not
\* between its own assignment of the pointer and the publishing of it), the
\* page-feedback signal equals the active-page pointer.
NoSwitchInProgress ==
    /\ tasks.main \in {"parse", "display", "main loop"}
    /\ tasks.slow.pc \in {"not started", "start", "idle"}

C25_FeedbackEqualsPointer ==
    NoSwitchInProgress => hal_page_current = current_page

\* C26: after state_poll on a Momentary key, state equals the input signal
\* and enabled equals the enable signal (true without an enable pin), and
\* the key is re-rendered in that poll exactly when state or enabled
\* differed from those signals before the poll.
EnableSignal == IF <<1, 0>> \in DOMAIN hal_enable THEN hal_enable[<<1, 0>>] ELSE TRUE

C26_MomentaryPollFollowsSignals ==
    [][last'.op = "poll"
         => /\ keys'[1][0].state = PyBool(hal_in[<<1, 0>>])
            /\ keys'[1][0].enabled = EnableSignal
            /\ last'.pushed =
                   IF keys[1][0].state # PyBool(hal_in[<<1, 0>>])
                      \/ keys[1][0].enabled # EnableSignal
                   THEN <<(<<"key", 1, 0>>)>>
                   ELSE <<>>
      ]_vars

\* A poll that follows a key_change and overwrites the state it set, on a
\* key without an enable pin.
C26_Witness ==
    /\ last.op = "poll"
    /\ last.flag
    /\ last.pushed = <<(<<"key", 1, 0>>)>>
    /\ DOMAIN hal_enable = {}
    /\ keys[1][0].state = PyBool(hal_in[<<1, 0>>])
    /\ keys[1][0].enabled
    /\ hal_out[<<1, 0>>] # hal_in[<<1, 0>>]

Registered == registry.keys_by_page \cup registry.splash_pages

InitialPageAssigned == tasks.main \notin {"parse", "display"}

C28_PointerOnRegisteredPage ==
    /\ [](InRange(current_page))
    /\ []((InitialPageAssigned /\ registry.keys_by_page # {})
            => current_page \in Registered)
    /\ [][(InitialPageAssigned /\ current_page' # current_page)
             => current_page' \in Registered']_vars

\* After startup page_monitor has handled a request for a page that is not
\* registered, and the pointer is on a splash page it switched to before.
C28_Witness ==
    /\ tasks.main = "main loop"
    /\ tasks.slow.pc = "idle"
    /\ tasks.slow.last_page_request \notin Registered
    /\ tasks.slow.last_page_request = tasks.page_select
    /\ registry.keys_by_page # {}
    /\ current_page \in registry.splash_pages
    /\ current_page # InitialPageOf(registry.keys_by_page)

\* The number Python computes with for a value of Key.state: a bool counts
\* as 0 or 1 (here in tenths), NaN and None give no number.
IsNumber(v) == v.t \in {"bool", "float"}
NumberOf(v) == IF v.t = "bool" THEN (IF v.b THEN 10 ELSE 0) ELSE v.n

\* C29: for a display-float key with min_step > 0, after a state_poll whose
\* sample is valid the displayed value (state) and last_good_value differ
\* by less than min_step, and last_good_value changes only in a poll where
\* the step condition holds.
C29_DisplayNearBaseline ==
    [][last'.op = "update"
       => \A pk \in FloatKeys :
             (pk[1] = current_page /\ float_state[pk].min_step > 0
                 /\ is_valid(hal_value[pk]))
                 => LET state == keys'[pk[1]][pk[2]].state
                        baseline == float_state'[pk].last_good_value
                    IN  /\ IsNumber(state)
                        /\ is_valid(baseline)
                        /\ Abs(NumberOf(state) - baseline.n)
                               < float_state[pk].min_step
                        /\ baseline # float_state[pk].last_good_value
                               => StepPath(float_state[pk], hal_value[pk])
      ]_vars


====
